---- MODULE Spec2Model ----
(***************************************************************************)
(* hebbot: the news store, the reaction classifier and the event handlers  *)
(* of the reporting room (new message, edit, reaction, redaction) and the  *)
(* admin room's !clear command.                                            *)
(*                                                                         *)
(* Strings are sequences of one-character tokens.  Event ids are natural   *)
(* numbers handed out in arrival order; an event's timestamp is its id.    *)
(***************************************************************************)
EXTENDS Integers, Sequences, FiniteSets, TLC

VARIABLES config, news_map, disk, room, nextId, out, last, lock, tasks

vars == <<config, news_map, disk, room, nextId, out, last, lock, tasks>>

---------------------------------------------------------------------------
(* Bounds of the model *)

\* the number of messages and reactions sent in the reporting room after
\* the bot started
MaxEvents == 2

---------------------------------------------------------------------------
(* Users and configuration *)

BotUserId == "bot"

Editor == "ed"

Reporters == {"al", "bo"}

Users == Reporters \cup {Editor, BotUserId}

\* config.min_length
MinLength == 2

\* config.notice_emoji
NoticeEmoji == <<"N">>

\* project.rs deserialize_emoji: the configured emoji with "?" appended
deserialize_emoji(raw) == raw \o <<"?">>

\* config.sections, in configuration order
Sections ==
    << [name |-> "s1", emoji |-> <<"S1">>, usual_reporters |-> {"al"}],
       [name |-> "s2", emoji |-> <<"S2", "FE0F">>, usual_reporters |-> {}] >>

\* config.projects, in configuration order
Projects ==
    << [name |-> "p", emoji |-> deserialize_emoji(<<"P1">>), default_section |-> "s1"] >>

\* section.order of the configured sections
SectionOrder == [name \in {"s1", "s2"} |-> IF name = "s1" THEN 1 ELSE 2]

\* the configurations the bot may be started with
Configs ==
    [restrict_notice : BOOLEAN, editors : {{Editor}}, section_order : {SectionOrder}]

---------------------------------------------------------------------------
(* Maps keyed by event id (HashMap<OwnedEventId, _>) *)

EmptyMap == [k \in {} |-> 0]

MapInsert(m, k, v) == [x \in (DOMAIN m) \cup {k} |-> IF x = k THEN v ELSE m[x]]

MapRemove(m, k) == [x \in (DOMAIN m) \ {k} |-> m[x]]

---------------------------------------------------------------------------
(* Strings *)

\* str::replace('\u{fe0f}', "")
RECURSIVE StripVS(_)
StripVS(s) ==
    IF s = <<>> THEN <<>>
    ELSE IF Head(s) = "FE0F" THEN StripVS(Tail(s))
    ELSE <<Head(s)>> \o StripVS(Tail(s))

\* str::strip_suffix(" ?").unwrap_or(s)
StripSuggestion(s) ==
    IF Len(s) >= 2 /\ s[Len(s) - 1] = " " /\ s[Len(s)] = "?"
    THEN SubSeq(s, 1, Len(s) - 2)
    ELSE s

emoji_cmp(a, b) == StripVS(a) = StripVS(b)

\* str::trim
RECURSIVE TrimStart(_)
TrimStart(s) ==
    IF s # <<>> /\ Head(s) = " " THEN TrimStart(Tail(s)) ELSE s

RECURSIVE TrimEnd(_)
TrimEnd(s) ==
    IF s # <<>> /\ s[Len(s)] = " " THEN TrimEnd(SubSeq(s, 1, Len(s) - 1)) ELSE s

Trim(s) == TrimEnd(TrimStart(s))

\* the bot's user id is @h:srv ("h" the localpart, "H" its upper case, "srv"
\* the server name, "SRV" its upper case), its display name is "d" ("D" in
\* upper case)
IsLocalpart(c) == c \in {"h", "H"}

IsServerName(c) == c \in {"srv", "SRV"}

IsDisplayName(c) == c \in {"d", "D"}

At(s, i) == IF i >= 1 /\ i <= Len(s) THEN s[i] ELSE "<end>"

\* length of the match of (?i)^@?{localpart}(:{server_name})?:? at the start
\* of s; -1 when the regex does not match
UserIdMentionLen(s) ==
    LET a == IF At(s, 1) = "@" THEN 1 ELSE 0
    IN  IF ~IsLocalpart(At(s, a + 1)) THEN -1
        ELSE LET b == a + 1
                 c == IF At(s, b + 1) = ":" /\ IsServerName(At(s, b + 2)) THEN b + 2 ELSE b
             IN  IF At(s, c + 1) = ":" THEN c + 1 ELSE c

\* length of the match of (?i)^{display_name}:? at the start of s, or -1
DisplayNameMentionLen(s) ==
    IF ~IsDisplayName(At(s, 1)) THEN -1
    ELSE IF At(s, 2) = ":" THEN 2 ELSE 1

DropPrefix(s, n) == IF n <= 0 THEN s ELSE SubSeq(s, n + 1, Len(s))

utils_msg_starts_with_mention_any_name(display_name, s) ==
    UserIdMentionLen(s) >= 0 \/ DisplayNameMentionLen(s) >= 0

\* utils::msg_starts_with_mention; display_name is TRUE when the bot has a
\* display name (Some), FALSE when it has none
utils_msg_starts_with_mention(display_name, s) ==
    \/ UserIdMentionLen(s) >= 0
    \/ display_name /\ DisplayNameMentionLen(s) >= 0

\* utils::remove_bot_name
utils_remove_bot_name(display_name, s) ==
    LET m1 == DropPrefix(s, UserIdMentionLen(s))
        m2 == IF display_name THEN DropPrefix(m1, DisplayNameMentionLen(m1)) ELSE m1
    IN  Trim(m2)

\* the calls of the bot, whose account has a display name
msg_starts_with_mention(s) == utils_msg_starts_with_mention(TRUE, s)

remove_bot_name(s) == utils_remove_bot_name(TRUE, s)

\* String::len(): the length in bytes
CharBytes(c) == IF c = "e'" THEN 2 ELSE 1

RECURSIVE ByteLen(_)
ByteLen(s) == IF s = <<>> THEN 0 ELSE CharBytes(Head(s)) + ByteLen(Tail(s))

IsWordChar(c) == c \in {"x", "p", "h", "H", "d", "D", "e'", "srv"}

\* Regex (?i)\b{name}\b|\b{title}\b of add_news: the project's name (one
\* token) stands in the text as a whole word
ProjectRegexIsMatch(project, s) ==
    \E i \in 1..Len(s) :
        /\ s[i] = project.name
        /\ ~IsWordChar(At(s, i - 1))
        /\ ~IsWordChar(At(s, i + 1))

---------------------------------------------------------------------------
(* News *)

News_new(event_id, reporter_id, message, now) ==
    [event_id |-> event_id,
     reporter_id |-> reporter_id,
     timestamp |-> now,
     message |-> message,
     section_names |-> EmptyMap,
     project_names |-> EmptyMap,
     images |-> EmptyMap,
     videos |-> EmptyMap]

set_message(news, message) == [news EXCEPT !.message = message]

\* is_assigned, had it counted the media too
is_assigned_with_media(news) ==
    \/ DOMAIN news.project_names # {}
    \/ DOMAIN news.section_names # {}
    \/ DOMAIN news.images # {}
    \/ DOMAIN news.videos # {}

\* News::is_assigned
is_assigned(news) ==
    (DOMAIN news.project_names # {}) \/ (DOMAIN news.section_names # {})

\* String order on the names the configuration defines (Vec<String>::sort)
NameRank(name) ==
    CASE name = "p" -> 0
      [] name = "s1" -> 1
      [] name = "s2" -> 2
      [] OTHER -> 3

\* HashMap::values().cloned().collect(), in one iteration order
RECURSIVE Values(_)
Values(m) ==
    IF DOMAIN m = {} THEN <<>>
    ELSE LET k == CHOOSE x \in DOMAIN m : \A y \in DOMAIN m : x <= y
         IN  <<m[k]>> \o Values(MapRemove(m, k))

\* Vec::sort
RECURSIVE sort(_)
sort(names) ==
    IF names = <<>> THEN <<>>
    ELSE LET i == CHOOSE x \in 1..Len(names) :
                    \A y \in 1..Len(names) : NameRank(names[x]) <= NameRank(names[y])
         IN  <<names[i]>> \o sort(SubSeq(names, 1, i - 1) \o SubSeq(names, i + 1, Len(names)))

\* Vec::dedup: of consecutive equal elements the first stays
RECURSIVE dedup(_)
dedup(names) ==
    IF Len(names) < 2 THEN names
    ELSE IF names[1] = names[2] THEN dedup(Tail(names))
    ELSE <<names[1]>> \o dedup(Tail(names))

\* section_names, had it not removed the duplicates
News_section_names_undeduped(news) ==
    sort(Values(news.section_names))

\* News::section_names
News_section_names(news) ==
    dedup(sort(Values(news.section_names)))

\* News::project_names
News_project_names(news) ==
    dedup(sort(Values(news.project_names)))

add_section_name(news, event_id, name) ==
    [news EXCEPT !.section_names = MapInsert(@, event_id, name)]

add_project_name(news, event_id, name) ==
    [news EXCEPT !.project_names = MapInsert(@, event_id, name)]

\* add_image, had it stored the image under the id of the image message
add_image_by_file_id(news, reaction_event_id, image_event_id, filename, mxc_uri) ==
    [news EXCEPT !.images =
        MapInsert(@, image_event_id, <<image_event_id, filename, mxc_uri>>)]

add_image(news, reaction_event_id, image_event_id, filename, mxc_uri) ==
    [news EXCEPT !.images =
        MapInsert(@, reaction_event_id, <<image_event_id, filename, mxc_uri>>)]

add_video(news, reaction_event_id, video_event_id, filename, mxc_uri) ==
    [news EXCEPT !.videos =
        MapInsert(@, reaction_event_id, <<video_event_id, filename, mxc_uri>>)]

\* remove_file, had it forgotten the videos
remove_file_images_only(news, event_id) ==
    [news EXCEPT !.images = MapRemove(@, event_id)]

\* News::remove_file
remove_file(news, event_id) ==
    [news EXCEPT !.images = MapRemove(@, event_id),
                 !.videos = MapRemove(@, event_id)]

\* the ReactionType that remove_reaction_id returns
remove_reaction_id_type(news, event_id) ==
    IF event_id \in DOMAIN news.section_names THEN "section"
    ELSE IF event_id \in DOMAIN news.project_names THEN "project"
    ELSE "none"

\* remove_reaction_id, had it forgotten the projects
remove_reaction_id_sections_only(news, event_id) ==
    IF event_id \in DOMAIN news.section_names
    THEN [news EXCEPT !.section_names = MapRemove(@, event_id)]
    ELSE news

\* remove_reaction_id, had it removed every reaction with the same name
remove_reaction_id_by_name(news, event_id) ==
    LET Kept(m) == {k \in DOMAIN m : m[k] # m[event_id]}
    IN  IF event_id \in DOMAIN news.section_names
        THEN [news EXCEPT !.section_names = [k \in Kept(@) |-> @[k]]]
        ELSE IF event_id \in DOMAIN news.project_names
        THEN [news EXCEPT !.project_names = [k \in Kept(@) |-> @[k]]]
        ELSE news

\* the News after remove_reaction_id
remove_reaction_id(news, event_id) ==
    IF event_id \in DOMAIN news.section_names
    THEN [news EXCEPT !.section_names = MapRemove(@, event_id)]
    ELSE IF event_id \in DOMAIN news.project_names
    THEN [news EXCEPT !.project_names = MapRemove(@, event_id)]
    ELSE news

relates_to_reaction_id(news, reaction_id) ==
    \/ reaction_id \in DOMAIN news.section_names
    \/ reaction_id \in DOMAIN news.project_names
    \/ reaction_id \in DOMAIN news.images
    \/ reaction_id \in DOMAIN news.videos

---------------------------------------------------------------------------
(* NewsStore: operations on the map news_map *)

\* add_news, had it stored the News under another key than its id
NewsStore_add_news_other_key(nm, news) == MapInsert(nm, news.event_id + 1, news)

\* add_news, had it kept the News already stored under the id
NewsStore_add_news_keeps(nm, news) ==
    IF news.event_id \in DOMAIN nm THEN nm ELSE MapInsert(nm, news.event_id, news)

\* NewsStore::add_news (write_data is the caller's disk' = news_map')
NewsStore_add_news(nm, news) == MapInsert(nm, news.event_id, news)

\* remove_news, had it reported success for an id it does not hold
NewsStore_remove_news_always_ok(nm, event_id) ==
    [ok |-> TRUE, map |-> MapRemove(nm, event_id)]

\* remove_news, had it removed every News
NewsStore_remove_news_all(nm, event_id) ==
    [ok |-> event_id \in DOMAIN nm, map |-> EmptyMap]

\* NewsStore::remove_news
NewsStore_remove_news(nm, event_id) ==
    [ok |-> event_id \in DOMAIN nm, map |-> MapRemove(nm, event_id)]

news_by_message_id(nm, message_event_id) ==
    IF message_event_id \in DOMAIN nm THEN {message_event_id} ELSE {}

\* the ids of the News the scan over news_map.values() may return first
news_by_reaction_id(nm, reaction_event_id) ==
    {k \in DOMAIN nm : relates_to_reaction_id(nm[k], reaction_event_id)}

\* the ids of the News whose images or videos hold the key file_event_id
news_by_file_id(nm, file_event_id) ==
    {k \in DOMAIN nm :
        \/ file_event_id \in DOMAIN nm[k].images
        \/ file_event_id \in DOMAIN nm[k].videos}

\* length of a day, in the unit of the timestamps
DayLen == 2

\* DateTime::time(): the time of day
TimeOfDay(t) == t % DayLen

Abs(x) == IF x < 0 THEN -x ELSE x

time_diff(news, timestamp) ==
    Abs(TimeOfDay(news.timestamp) - TimeOfDay(timestamp))

\* the ids find_related_news may return: the scan keeps the first News of the
\* reporter with the smallest difference, in the map's iteration order
find_related_news(nm, reporter_id, timestamp) ==
    LET mine == {k \in DOMAIN nm : nm[k].reporter_id = reporter_id}
    IN  {k \in mine :
            \A j \in mine : time_diff(nm[k], timestamp) <= time_diff(nm[j], timestamp)}

clear_news(nm) == EmptyMap

---------------------------------------------------------------------------
(* Config *)

is_editor(cfg, user_id) == user_id \in cfg.editors

\* the ReactionType of an emoji, had the projects come before the sections
Config_reaction_type_by_emoji_projects_first(notice_emoji, sections, projects, emoji) ==
    IF emoji_cmp(notice_emoji, emoji) THEN [kind |-> "notice", name |-> ""]
    ELSE LET ss == {i \in 1..Len(sections) : emoji_cmp(sections[i].emoji, emoji)}
             ps == {i \in 1..Len(projects) : emoji_cmp(projects[i].emoji, emoji)}
             Min(S) == CHOOSE i \in S : \A j \in S : i <= j
         IN  IF ps # {} THEN [kind |-> "project", name |-> projects[Min(ps)].name]
             ELSE IF ss # {} THEN [kind |-> "section", name |-> sections[Min(ss)].name]
             ELSE [kind |-> "none", name |-> ""]

\* Config::reaction_type_by_emoji: Notice, else the first section, else the
\* first project with that emoji, else None
Config_reaction_type_by_emoji(notice_emoji, sections, projects, emoji) ==
    IF emoji_cmp(notice_emoji, emoji) THEN [kind |-> "notice", name |-> ""]
    ELSE LET ss == {i \in 1..Len(sections) : emoji_cmp(sections[i].emoji, emoji)}
             ps == {i \in 1..Len(projects) : emoji_cmp(projects[i].emoji, emoji)}
             Min(S) == CHOOSE i \in S : \A j \in S : i <= j
         IN  IF ss # {} THEN [kind |-> "section", name |-> sections[Min(ss)].name]
             ELSE IF ps # {} THEN [kind |-> "project", name |-> projects[Min(ps)].name]
             ELSE [kind |-> "none", name |-> ""]

\* Config::reaction_type_by_emoji, on the configuration of the model
reaction_type_by_emoji(emoji) ==
    Config_reaction_type_by_emoji(NoticeEmoji, Sections, Projects, emoji)

sections_by_usual_reporter(reporter) ==
    SelectSeq(Sections, LAMBDA sec : reporter \in sec.usual_reporters)

---------------------------------------------------------------------------
(* Bot: what the handlers send and what they do to the store *)

\* a message, reaction or file the bot sends: the room, what it says, the
\* user it names, the event it links to and the name it quotes
Sent(to, kind, who, ref, text) ==
    [room |-> to, kind |-> kind, who |-> who, ref |-> ref, text |-> text]

\* the outcome of a handler: the store, what was sent, and whether
\* write_data ran
Outcome(nm, sent, wrote) == [nm |-> nm, out |-> sent, wrote |-> wrote]

\* the suggestion reactions of add_news
SuggestedReactions(news) ==
    LET ps == SelectSeq(Projects, LAMBDA prj : ProjectRegexIsMatch(prj, news.message))
        ss == sections_by_usual_reporter(news.reporter_id)
    IN  [i \in 1..Len(ps) |->
            Sent("reporting", "reaction", "", news.event_id, ps[i].emoji \o <<" ", "?">>)]
        \o
        [i \in 1..Len(ss) |->
            Sent("reporting", "reaction", "", news.event_id, ss[i].emoji)]

\* add_news, had it checked the length before it looked for the id
Bot_add_news_length_first(nm, news, notify_reporter) ==
    LET stripped == set_message(news, remove_bot_name(news.message))
    IN  IF ByteLen(stripped.message) <= MinLength
        THEN Outcome(nm,
                <<Sent("reporting", "too_short", news.reporter_id, 0, "")>>,
                FALSE)
        ELSE IF news_by_message_id(nm, news.event_id) # {}
        THEN Outcome(nm, <<Sent("admin", "resubmit", "", news.event_id, "")>>, FALSE)
        ELSE Outcome(
                NewsStore_add_news(nm, stripped),
                (IF notify_reporter
                    THEN <<Sent("reporting", "ack", news.reporter_id, 0, "")>>
                    ELSE <<>>)
                \o <<Sent("admin", "submitted", news.reporter_id, news.event_id, "")>>
                \o SuggestedReactions(stripped),
                TRUE)

\* add_news, had it compared the length with >= instead of >
Bot_add_news_at_least(nm, news, notify_reporter) ==
    IF news_by_message_id(nm, news.event_id) # {}
    THEN Outcome(nm, <<Sent("admin", "resubmit", "", news.event_id, "")>>, FALSE)
    ELSE LET stripped == set_message(news, remove_bot_name(news.message))
         IN  IF ByteLen(stripped.message) >= MinLength
             THEN Outcome(
                    NewsStore_add_news(nm, stripped),
                    (IF notify_reporter
                        THEN <<Sent("reporting", "ack", news.reporter_id, 0, "")>>
                        ELSE <<>>)
                    \o <<Sent("admin", "submitted", news.reporter_id, news.event_id, "")>>
                    \o SuggestedReactions(stripped),
                    TRUE)
             ELSE Outcome(nm,
                    <<Sent("reporting", "too_short", news.reporter_id, 0, "")>>,
                    FALSE)

\* Bot::add_news
Bot_add_news(nm, news, notify_reporter) ==
    IF news_by_message_id(nm, news.event_id) # {}
    THEN Outcome(nm, <<Sent("admin", "resubmit", "", news.event_id, "")>>, FALSE)
    ELSE LET stripped == set_message(news, remove_bot_name(news.message))
         IN  IF ByteLen(stripped.message) > MinLength
             THEN Outcome(
                    NewsStore_add_news(nm, stripped),
                    (IF notify_reporter
                        THEN <<Sent("reporting", "ack", news.reporter_id, 0, "")>>
                        ELSE <<>>)
                    \o <<Sent("admin", "submitted", news.reporter_id, news.event_id, "")>>
                    \o SuggestedReactions(stripped),
                    TRUE)
             ELSE Outcome(nm,
                    <<Sent("reporting", "too_short", news.reporter_id, 0, "")>>,
                    FALSE)

\* Bot::on_reporting_room_msg
on_reporting_room_msg(nm, message, mentions_bot, sender, event_id, now) ==
    IF ~mentions_bot /\ ~msg_starts_with_mention(message)
    THEN Outcome(nm, <<>>, FALSE)
    ELSE Bot_add_news(nm, News_new(event_id, sender, message, now), TRUE)

\* on_reporting_room_msg_edit, had it stored the new text with the bot's name
on_reporting_room_msg_edit_unstripped(nm, updated_message, edited_msg_event_id) ==
    IF news_by_message_id(nm, edited_msg_event_id) # {}
    THEN LET news == set_message(nm[edited_msg_event_id], updated_message)
         IN  Outcome([nm EXCEPT ![edited_msg_event_id] = news],
                IF is_assigned(news)
                THEN <<Sent("admin", "edited", news.reporter_id, edited_msg_event_id, "")>>
                ELSE <<>>,
                TRUE)
    ELSE Outcome(nm, <<>>, TRUE)

\* Bot::on_reporting_room_msg_edit
on_reporting_room_msg_edit(nm, updated_message, edited_msg_event_id) ==
    LET updated == remove_bot_name(updated_message)
    IN  IF news_by_message_id(nm, edited_msg_event_id) # {}
        THEN LET news == set_message(nm[edited_msg_event_id], updated)
             IN  Outcome([nm EXCEPT ![edited_msg_event_id] = news],
                    IF is_assigned(news)
                    THEN <<Sent("admin", "edited", news.reporter_id, edited_msg_event_id, "")>>
                    ELSE <<>>,
                    TRUE)
        ELSE Outcome(nm, <<>>, TRUE)

\* the section or project tag a reaction adds to the News of the related
\* message (the match on reaction_type of on_reporting_room_reaction)
TagNews(nm, sender, reaction_type, reaction_event_id, related_event_id) ==
    LET news == nm[related_event_id]
    IN  IF reaction_type.kind = "section"
        THEN Outcome(
                [nm EXCEPT ![related_event_id] =
                    add_section_name(news, reaction_event_id, reaction_type.name)],
                <<Sent("admin", "section_added", sender, related_event_id,
                       reaction_type.name)>>,
                TRUE)
        ELSE IF reaction_type.kind = "project"
        THEN Outcome(
                [nm EXCEPT ![related_event_id] =
                    add_project_name(news, reaction_event_id, reaction_type.name)],
                <<Sent("admin", "project_added", sender, related_event_id,
                       reaction_type.name)>>,
                TRUE)
        ELSE Outcome(nm, <<>>, TRUE)

\* the check of the image branch: a reactor who is no editor and not the
\* sender of the image is turned away when notices are restricted
ImageReactorRefused(cfg, sender, related_event) ==
    /\ ~is_editor(cfg, sender)
    /\ sender # related_event.sender
    /\ cfg.restrict_notice

\* the video branch has no such check
VideoReactorRefused(cfg, sender, related_event) == FALSE

\* the check of the text branch, had it been left out as in the video branch
NoticeReactorRefused_never(cfg, sender, related_event) == FALSE

\* the check of the text branch before a notice reaction submits a message
NoticeReactorRefused(cfg, sender, related_event) ==
    /\ ~is_editor(cfg, sender)
    /\ sender # related_event.sender
    /\ cfg.restrict_notice

\* the first check, had an editor's reactions been let through before the
\* sender was compared with the bot
ReactionDropped_editors_pass(cfg, sender, reaction_emoji) ==
    /\ ~is_editor(cfg, sender)
    /\ \/ sender = BotUserId
       \/ cfg.restrict_notice /\ ~emoji_cmp(reaction_emoji, NoticeEmoji)

\* the first check of on_reporting_room_reaction: the bot's own reactions,
\* and under restrict_notice every reaction of a non-editor but the notice
\* emoji, are dropped
ReactionDropped(cfg, sender, reaction_emoji) ==
    \/ sender = BotUserId
    \/ /\ cfg.restrict_notice
       /\ ~is_editor(cfg, sender)
       /\ ~emoji_cmp(reaction_emoji, NoticeEmoji)

\* the image and the video branch of on_reporting_room_reaction
MediaReaction(cfg, nm, sender, reaction_type, reaction_event_id, related_event_id, related_event) ==
    LET isImage == related_event.msgtype = "image"
        found == find_related_news(nm, related_event.sender, related_event_id)
        refused == IF isImage THEN ImageReactorRefused(cfg, sender, related_event)
                   ELSE VideoReactorRefused(cfg, sender, related_event)
        Attach(k) ==
            IF refused THEN Outcome(nm, <<>>, FALSE)
            ELSE IF related_event.source = "plain"
            THEN Outcome(
                    [nm EXCEPT ![k] =
                        IF isImage
                        THEN add_image(nm[k], reaction_event_id, related_event_id,
                                       related_event.body, related_event.uri)
                        ELSE add_video(nm[k], reaction_event_id, related_event_id,
                                       related_event.body, related_event.uri)],
                    <<Sent("admin", IF isImage THEN "image_added" ELSE "video_added",
                           nm[k].reporter_id, related_event_id, "")>>,
                    TRUE)
            ELSE Outcome(nm, <<>>, TRUE)
    IN  IF reaction_type.kind = "notice"
        THEN IF found # {}
             THEN {Attach(k) : k \in found}
             ELSE {Outcome(nm,
                    <<Sent("admin", IF isImage THEN "image_no_match" ELSE "video_no_match",
                           sender, related_event_id, "")>>,
                    TRUE)}
        ELSE {Outcome(nm,
                <<Sent("admin", IF isImage THEN "image_invalid" ELSE "video_invalid",
                       sender, related_event_id, "")>>,
                TRUE)}

\* the submission, had the News been made of the reaction and its sender
SubmitByNotice_of_reaction(nm, sender, reaction_event_id, related_event_id, related_event) ==
    Bot_add_news(nm,
        News_new(reaction_event_id, sender, related_event.body, reaction_event_id),
        FALSE)

\* the notice emoji on a text: News::new(related_event_id,
\* &related_event_sender, text) and add_news(news, false)
SubmitByNotice(nm, sender, reaction_event_id, related_event_id, related_event) ==
    Bot_add_news(nm,
        News_new(related_event_id, related_event.sender, related_event.body,
                 reaction_event_id),
        FALSE)

\* Bot::on_reporting_room_reaction: the outcomes it may have (several when
\* find_related_news has a tie)
on_reporting_room_reaction(cfg, nm, sender, emoji, reaction_event_id, related_event_id, related_event) ==
    LET reaction_emoji == StripSuggestion(emoji)
        reaction_type == reaction_type_by_emoji(reaction_emoji)
    IN  IF ReactionDropped(cfg, sender, reaction_emoji)
        THEN {Outcome(nm, <<>>, FALSE)}
        ELSE IF reaction_type.kind = "none"
        THEN {Outcome(nm, <<>>, FALSE)}
        ELSE IF related_event.msgtype \in {"text", "notice"}
        THEN IF emoji_cmp(reaction_emoji, NoticeEmoji)
             THEN IF NoticeReactorRefused(cfg, sender, related_event)
                  THEN {Outcome(nm, <<>>, FALSE)}
                  ELSE LET res == SubmitByNotice(nm, sender, reaction_event_id,
                                                 related_event_id, related_event)
                       IN  {Outcome(res.nm, res.out, TRUE)}
             ELSE IF news_by_message_id(nm, related_event_id) # {}
             THEN {TagNews(nm, sender, reaction_type, reaction_event_id, related_event_id)}
             ELSE {Outcome(nm,
                    <<Sent("admin", "not_a_news", sender, related_event_id,
                           reaction_type.kind)>>,
                    TRUE)}
        ELSE IF related_event.msgtype \in {"image", "video"}
        THEN MediaReaction(cfg, nm, sender, reaction_type, reaction_event_id,
                           related_event_id, related_event)
        ELSE {Outcome(nm, <<>>, TRUE)}

\* Bot::on_reporting_room_redaction: the outcomes it may have
on_reporting_room_redaction(nm, member, redacted_event_id) ==
    LET removed == NewsStore_remove_news(nm, redacted_event_id)
        byFile == news_by_file_id(nm, redacted_event_id)
        byReaction == news_by_reaction_id(nm, redacted_event_id)
        Untag(k) ==
            LET reaction_type == remove_reaction_id_type(nm[k], redacted_event_id)
                after == [nm EXCEPT ![k] = remove_reaction_id(nm[k], redacted_event_id)]
            IN  IF reaction_type = "notice"
                THEN Outcome(after,
                        <<Sent("admin", "notice_removed", member, redacted_event_id, "")>>,
                        TRUE)
                ELSE IF reaction_type # "none"
                THEN Outcome(after,
                        <<Sent("admin", "reaction_removed", member, redacted_event_id,
                               reaction_type)>>,
                        TRUE)
                ELSE Outcome(after, <<>>, TRUE)
    IN  IF removed.ok
        THEN {Outcome(removed.map,
                <<Sent("admin", "news_deleted", member, redacted_event_id, "")>>,
                TRUE)}
        ELSE IF byFile # {}
        THEN {Outcome([nm EXCEPT ![k] = remove_file(nm[k], redacted_event_id)],
                <<Sent("admin", "file_deleted", member, redacted_event_id, "")>>,
                TRUE) : k \in byFile}
        ELSE IF byReaction # {}
        THEN {Untag(k) : k \in byReaction}
        ELSE {Outcome(nm, <<>>, TRUE)}

\* NewsStore::news: a copy of every News, in the iteration order of the map,
\* which is any order
NewsStore_news(nm) ==
    LET n == Cardinality(DOMAIN nm)
    IN  {[i \in 1..n |-> nm[keys[i]]] :
            keys \in {p \in [1..n -> DOMAIN nm] : \A i, j \in 1..n : p[i] = p[j] => i = j}}

\* Config::section_by_name
section_by_name(cfg, name) ==
    LET i == CHOOSE j \in DOMAIN Sections : Sections[j].name = name
    IN  [name |-> Sections[i].name, order |-> cfg.section_order[name]]

\* Config::project_by_name
project_by_name(cfg, name) ==
    Projects[CHOOSE j \in DOMAIN Projects : Projects[j].name = name]

\* News::deduplicate_files: one (name, uri) for every uri, in the iteration
\* order of a new HashMap, which is any order
deduplicate_files(files) ==
    LET uris == {files[r][3] : r \in DOMAIN files}
        entries == {<<files[r][2], files[r][3]>> : r \in DOMAIN files}
    IN  {list \in [1..Cardinality(uris) -> entries] :
            \A u \in uris : \E i \in DOMAIN list : list[i][2] = u}

\* the key of render_projects: the project name, or "{project}-{section}";
\* and its place in the order of the strings
ProjectKeyRank(key) ==
    NameRank(key[1]) * 10 + (IF key[2] = "" THEN 0 ELSE 1 + NameRank(key[2]))

\* the key of render_sections, "{order}-{name}", and its place in the order
\* of the strings (orders of one digit)
SectionKeyRank(key) == key[1] * 10 + NameRank(key[2])

\* news without project, had render put them into the first of their
\* sections only
RenderIntoSections_first_only(render_sections, news, cfg, names) ==
    IF names = <<>> THEN render_sections
    ELSE LET section == section_by_name(cfg, Head(names))
             key == <<section.order, Head(names)>>
         IN  IF key \in DOMAIN render_sections
             THEN [render_sections EXCEPT ![key].news = <<news.event_id>> \o @]
             ELSE MapInsert(render_sections, key,
                     [section |-> section, projects |-> <<>>,
                      news |-> <<news.event_id>>])

\* render: news without project go directly into the RenderSection of each
\* of their sections
RECURSIVE RenderIntoSections(_, _, _, _)
RenderIntoSections(render_sections, news, cfg, names) ==
    IF names = <<>> THEN render_sections
    ELSE LET section == section_by_name(cfg, Head(names))
             key == <<section.order, Head(names)>>
         IN  RenderIntoSections(
                IF key \in DOMAIN render_sections
                THEN [render_sections EXCEPT ![key].news = <<news.event_id>> \o @]
                ELSE MapInsert(render_sections, key,
                        [section |-> section, projects |-> <<>>,
                         news |-> <<news.event_id>>]),
                news, cfg, Tail(names))

\* render: a News is put at the head of the RenderProject with this key
IntoProject(render_projects, key, news, project, overwritten_section) ==
    IF key \in DOMAIN render_projects
    THEN [render_projects EXCEPT ![key].news = <<news.event_id>> \o @]
    ELSE MapInsert(render_projects, key,
            [project |-> project.name, default_section |-> project.default_section,
             news |-> <<news.event_id>>, overwritten_section |-> overwritten_section])

\* render: the sections of a News that are not the default section of its
\* project; each gives a note and a RenderProject of its own
RECURSIVE RenderOverwritten(_, _, _, _)
RenderOverwritten(acc, news, project, names) ==
    IF names = <<>> THEN acc
    ELSE IF Head(names) = project.default_section
    THEN RenderOverwritten(acc, news, project, Tail(names))
    ELSE RenderOverwritten(
            [acc EXCEPT
                !.notes = <<[kind |-> "custom_section", id |-> news.event_id,
                             name |-> Head(names)]>> \o @,
                !.render_projects =
                    IntoProject(@, <<project.name, Head(names)>>, news, project,
                                Head(names))],
            news, project, Tail(names))

\* the projects of a News, had render gone on to the project's own group
\* after a section that is not the default
RECURSIVE RenderIntoProjects_no_continue(_, _, _, _)
RenderIntoProjects_no_continue(acc, news, cfg, names) ==
    IF names = <<>> THEN acc
    ELSE LET project == project_by_name(cfg, Head(names))
             custom == RenderOverwritten(acc, news, project, News_section_names(news))
         IN  RenderIntoProjects_no_continue(
                [custom EXCEPT
                    !.render_projects =
                        IntoProject(@, <<project.name, "">>, news, project, "")],
                news, cfg, Tail(names))

\* render: the projects of a News
RECURSIVE RenderIntoProjects(_, _, _, _)
RenderIntoProjects(acc, news, cfg, names) ==
    IF names = <<>> THEN acc
    ELSE LET project == project_by_name(cfg, Head(names))
             sections == News_section_names(news)
             overwritten_section ==
                \E i \in DOMAIN sections : sections[i] # project.default_section
             custom == RenderOverwritten(acc, news, project, sections)
         IN  RenderIntoProjects(
                IF overwritten_section
                THEN custom
                ELSE [custom EXCEPT
                        !.render_projects =
                            IntoProject(@, <<project.name, "">>, news, project, "")],
                news, cfg, Tail(names))

\* render: one News of the list, with the files its images() and videos() gave
RenderNews(acc, news, cfg, files) ==
    IF ~is_assigned(news)
    THEN [acc EXCEPT !.not_assigned = @ + 1]
    ELSE LET multiple == \/ Len(News_project_names(news)) > 1
                         \/ Len(News_section_names(news)) > 1
             counted ==
                [acc EXCEPT
                    !.warnings = IF multiple
                                 THEN <<[kind |-> "multiple", id |-> news.event_id]>> \o @
                                 ELSE @,
                    !.news_count = @ + 1,
                    !.images = @ \o files.images,
                    !.videos = @ \o files.videos]
         IN  IF News_project_names(news) = <<>>
             THEN [counted EXCEPT
                    !.notes = <<[kind |-> "no_project", id |-> news.event_id,
                                 name |-> ""]>> \o @,
                    !.render_sections =
                        RenderIntoSections(@, news, cfg, News_section_names(news))]
             ELSE RenderIntoProjects(counted, news, cfg, News_project_names(news))

\* render: the loop over news_list
RECURSIVE RenderList(_, _, _, _, _)
RenderList(acc, news_list, cfg, files, i) ==
    IF i > Len(news_list) THEN acc
    ELSE RenderList(RenderNews(acc, news_list[i], cfg, files[i]), news_list, cfg, files, i + 1)

\* render: the RenderProjects, in the order of their keys, each put at the
\* head of the projects of its section
RECURSIVE SortIntoSections(_, _, _, _)
SortIntoSections(render_sections, render_projects, cfg, keys) ==
    IF keys = {} THEN render_sections
    ELSE LET key == CHOOSE k \in keys :
                        \A j \in keys : ProjectKeyRank(k) <= ProjectKeyRank(j)
             render_project == render_projects[key]
             section_name == IF render_project.overwritten_section # ""
                             THEN render_project.overwritten_section
                             ELSE render_project.default_section
             section == section_by_name(cfg, section_name)
             map_key == <<section.order, section_name>>
         IN  SortIntoSections(
                IF map_key \in DOMAIN render_sections
                THEN [render_sections EXCEPT ![map_key].projects = <<render_project>> \o @]
                ELSE MapInsert(render_sections, map_key,
                        [section |-> section, projects |-> <<render_project>>,
                         news |-> <<>>]),
                render_projects, cfg, keys \ {key})

\* render: sorted_render_sections, a BTreeMap keyed by the Section, which
\* Ord compares by order alone: a section replaces one of the same order
RECURSIVE SortSections(_, _, _)
SortSections(sorted, render_sections, keys) ==
    IF keys = {} THEN sorted
    ELSE LET key == CHOOSE k \in keys :
                        \A j \in keys : SectionKeyRank(k) <= SectionKeyRank(j)
         IN  SortSections(MapInsert(sorted, key[1], render_sections[key]),
                          render_sections, keys \ {key})

\* section_template.md: the places of {{section.news}} and {{section.projects}}
section_template == <<"news", "projects">>

\* render_section_md: the News and the project blocks of a section, where the
\* template puts them
render_section_md(render_section) ==
    LET news == [i \in DOMAIN render_section.news |->
                    [kind |-> "news", project |-> "", news |-> <<render_section.news[i]>>]]
        projects == [i \in DOMAIN render_section.projects |->
                    [kind |-> "project",
                     project |-> render_section.projects[i].project,
                     news |-> render_section.projects[i].news]]
        Put(i) == IF section_template[i] = "news" THEN news ELSE projects
    IN  [section |-> render_section.section.name,
         order |-> render_section.section.order,
         items |-> Put(1) \o Put(2)]

\* the section blocks, had the highest order come first
RECURSIVE RenderedReport_descending(_, _)
RenderedReport_descending(sorted, orders) ==
    IF orders = {} THEN <<>>
    ELSE LET o == CHOOSE x \in orders : \A y \in orders : x >= y
         IN  <<render_section_md(sorted[o])>>
             \o RenderedReport_descending(sorted, orders \ {o})

\* the section blocks, in the order of the keys of sorted_render_sections
RECURSIVE RenderedReport(_, _)
RenderedReport(sorted, orders) ==
    IF orders = {} THEN <<>>
    ELSE LET o == CHOOSE x \in orders : \A y \in orders : x <= y
         IN  <<render_section_md(sorted[o])>> \o RenderedReport(sorted, orders \ {o})

\* Vec::reverse
Reverse(list) == [i \in 1..Len(list) |-> list[Len(list) + 1 - i]]

\* render: the loop over news_list from its start
RenderAll(news_list, cfg, files) ==
    RenderList([render_projects |-> EmptyMap, render_sections |-> EmptyMap,
                news_count |-> 0, not_assigned |-> 0,
                images |-> <<>>, videos |-> <<>>,
                warnings |-> <<>>, notes |-> <<>>],
               news_list, cfg, files, 1)

\* render: render_sections when every RenderProject is in its section
RenderSections(news_list, cfg, files) ==
    LET acc == RenderAll(news_list, cfg, files)
    IN  SortIntoSections(acc.render_sections, acc.render_projects, cfg,
                         DOMAIN acc.render_projects)

\* the warning about the News left out, had render given it always
NotIncluded_always(not_assigned) ==
    <<[kind |-> "not_included", id |-> not_assigned]>>

\* render: the warning about the News that are not assigned
NotIncluded(not_assigned) ==
    IF not_assigned # 0
    THEN <<[kind |-> "not_included", id |-> not_assigned]>>
    ELSE <<>>

\* render::render for one choice of the orders in which images() and
\* videos() list the files of each News
RenderWith(news_list, cfg, editor, files) ==
    LET acc == RenderAll(news_list, cfg, files)
        render_sections == RenderSections(news_list, cfg, files)
        sorted == SortSections(EmptyMap, render_sections, DOMAIN render_sections)
        warnings == NotIncluded(acc.not_assigned) \o acc.warnings
        notes == <<[kind |-> "summary", id |-> acc.news_count,
                    name |-> <<Len(acc.images), Len(acc.videos)>>]>> \o acc.notes
    IN  [rendered |-> RenderedReport(sorted, DOMAIN sorted),
         warnings |-> Reverse(warnings),
         notes |-> Reverse(notes),
         images |-> acc.images,
         videos |-> acc.videos]

\* render::render: the results it may give for a list of News
render(news_list, cfg, editor) ==
    LET FilesOf(news) == [images : deduplicate_files(news.images),
                          videos : deduplicate_files(news.videos)]
    IN  {RenderWith(news_list, cfg, editor, files) :
            files \in {f \in [DOMAIN news_list ->
                                UNION {FilesOf(news_list[i]) : i \in DOMAIN news_list}] :
                            \A i \in DOMAIN news_list : f[i] \in FilesOf(news_list[i])}}

\* the messages render_command sends for a result
RenderMessages(result, editor) ==
    <<Sent("admin", "file", editor, 0, "")>>
    \o (IF result.warnings # <<>>
        THEN <<Sent("admin", "warnings", "", Len(result.warnings), "")>>
        ELSE <<>>)
    \o <<Sent("admin", "notes", "", Len(result.notes), "")>>
    \o (IF Len(result.images) + Len(result.videos) > 0
        THEN <<Sent("admin", "download", "", 0, ""), Sent("admin", "curl", "", 0, "")>>
        ELSE <<>>)

\* render_command, had it emptied the store it rendered
render_command_clearing(cfg, nm, editor) ==
    {Outcome(clear_news(nm), RenderMessages(result, editor), TRUE) :
        result \in UNION {render(news, cfg, editor) : news \in NewsStore_news(nm)}}

\* Bot::render_command
render_command(cfg, nm, editor) ==
    {Outcome(nm, RenderMessages(result, editor), FALSE) :
        result \in UNION {render(news, cfg, editor) : news \in NewsStore_news(nm)}}

\* Bot::on_admin_room_message with the command !clear (clear_command)
on_admin_clear(cfg, nm, member) ==
    IF ~is_editor(cfg, member)
    THEN Outcome(nm, <<Sent("admin", "no_permission", "", 0, "")>>, FALSE)
    ELSE Outcome(clear_news(nm), <<Sent("admin", "cleared", "", 0, "")>>, TRUE)

---------------------------------------------------------------------------
(* The events of the rooms *)

\* "@h: p xx": a mention of the bot, then a text that names project p
BodyMentionLong == <<"@", "h", ":", " ", "p", " ", "x", "x">>

\* "h: xx": a mention, then a text of exactly MinLength bytes
BodyMentionShort == <<"h", ":", " ", "x", "x">>

\* "xxx": no mention
BodyPlain == <<"x", "x", "x">>

TextBodies == {BodyMentionLong, BodyMentionShort, BodyPlain}

\* what a message of the reporting room may hold (MessageType)
Contents ==
    [msgtype : {"text"}, body : TextBodies, source : {"none"}, uri : {""}]
    \cup
    [msgtype : {"notice"}, body : {BodyPlain}, source : {"none"}, uri : {""}]
    \cup
    [msgtype : {"image"}, body : {<<"f">>}, source : {"plain", "encrypted"}, uri : {"mxc1"}]
    \cup
    [msgtype : {"video"}, body : {<<"f">>}, source : {"plain"}, uri : {"mxc1"}]

\* the keys of the reactions users send
ReactionKeys ==
    { <<"N", "FE0F">>, <<"S1">>, <<"S2">>, <<"P1", "?", " ", "?">>, <<"Z">> }

\* room_event_by_id and as_message_event: the message, when the event is an
\* unredacted message of the room
IsMessage(event_id) == event_id \in DOMAIN room

NoEvent ==
    [event |-> "init", id |-> 0, sender |-> "", target |-> 0, kind |-> "",
     msgtype |-> "", author |-> "", was_news |-> FALSE, mentions |-> FALSE,
     arg |-> {}]

\* the handler futures that can be in flight at once
Tasks == {1, 2}

\* a handler that has not been called, or has returned
Idle ==
    [handler |-> "", pc |-> 0, ev |-> NoEvent, res |-> Outcome(EmptyMap, <<>>, FALSE),
     pending |-> <<>>, change |-> "none", failed |-> FALSE]

Apply(res) ==
    /\ news_map' = res.nm
    /\ out' = res.out
    /\ disk' = IF res.wrote THEN res.nm ELSE disk
    /\ UNCHANGED <<lock, tasks>>

\* the message the room holds when the bot starts, and the News a former
\* run of the bot made of it
FirstMessage ==
    [sender |-> "al", msgtype |-> "text", body |-> BodyMentionLong,
     source |-> "none", uri |-> ""]

FirstNews == News_new(1, "al", remove_bot_name(BodyMentionLong), 1)

\* NewsStore::read: the store is what the file holds, nothing or the News of
\* the first message
Init ==
    /\ config \in Configs
    /\ news_map \in {EmptyMap, MapInsert(EmptyMap, 1, FirstNews)}
    /\ disk = news_map
    /\ room = MapInsert(EmptyMap, 1, FirstMessage)
    /\ nextId = 2
    /\ out = <<>>
    /\ last = NoEvent
    /\ lock = 0
    /\ tasks = [t \in Tasks |-> Idle]

\* Bot::on_room_message, a new message
MessageCreated(sender, content, mentions_bot) ==
    /\ nextId <= MaxEvents + 1
    /\ room' = MapInsert(room, nextId,
                 [sender |-> sender, msgtype |-> content.msgtype, body |-> content.body,
                  source |-> content.source, uri |-> content.uri])
    /\ nextId' = nextId + 1
    /\ Apply(IF content.msgtype = "text"
             THEN on_reporting_room_msg(news_map, content.body, mentions_bot, sender,
                                        nextId, nextId)
             ELSE Outcome(news_map, <<>>, FALSE))
    /\ last' = [NoEvent EXCEPT !.event = "message", !.id = nextId, !.sender = sender,
                               !.msgtype = content.msgtype, !.mentions = mentions_bot]
    /\ UNCHANGED config

\* Bot::on_room_message, a text message the room held when the bot started:
\* the first syncs hand it to the bot once more, before anything new arrives
MessageRedelivered(event_id) ==
    /\ nextId = 2
    /\ IsMessage(event_id)
    /\ room[event_id].msgtype = "text"
    /\ Apply(on_reporting_room_msg(news_map, room[event_id].body, FALSE,
                                   room[event_id].sender, event_id, nextId - 1))
    /\ last' = [NoEvent EXCEPT !.event = "message", !.id = event_id,
                               !.sender = room[event_id].sender, !.msgtype = "text",
                               !.was_news = (event_id \in DOMAIN news_map)]
    /\ UNCHANGED <<config, room, nextId>>

\* Bot::on_room_message, an edit with a text as its new content (the room
\* then shows the new text)
MessageEdited(target, body) ==
    /\ room' = IF IsMessage(target) /\ room[target].msgtype = "text"
               THEN [room EXCEPT ![target].body = body]
               ELSE room
    /\ Apply(on_reporting_room_msg_edit(news_map, body, target))
    /\ last' = [NoEvent EXCEPT !.event = "edit", !.target = target,
                               !.was_news = (target \in DOMAIN news_map),
                               !.arg = {body}]
    /\ UNCHANGED <<config, nextId>>

\* Bot::on_room_reaction
ReactionAdded(sender, key, target) ==
    /\ nextId <= MaxEvents + 1
    /\ nextId' = nextId + 1
    /\ \E res \in (IF IsMessage(target)
                   THEN on_reporting_room_reaction(config, news_map, sender, StripVS(key),
                                                   nextId, target, room[target])
                   ELSE {Outcome(news_map, <<>>, FALSE)}) :
           Apply(res)
    /\ last' = [NoEvent EXCEPT
                    !.event = "reaction", !.id = nextId, !.sender = sender,
                    !.target = target,
                    !.kind = reaction_type_by_emoji(StripSuggestion(StripVS(key))).kind,
                    !.msgtype = IF IsMessage(target) THEN room[target].msgtype ELSE "",
                    !.author = IF IsMessage(target) THEN room[target].sender ELSE "",
                    !.was_news = (target \in DOMAIN news_map)]
    /\ UNCHANGED <<config, room>>

\* the names that the reaction event_id gave to News of the store nm
TaggedNames(nm, event_id) ==
    {nm[k].section_names[event_id] :
        k \in {j \in DOMAIN nm : event_id \in DOMAIN nm[j].section_names}}
    \cup
    {nm[k].project_names[event_id] :
        k \in {j \in DOMAIN nm : event_id \in DOMAIN nm[j].project_names}}

\* Bot::on_room_redaction; a redacted message is no message of the room any more
Redaction(member, redacted_event_id) ==
    /\ room' = MapRemove(room, redacted_event_id)
    /\ \E res \in on_reporting_room_redaction(news_map, member, redacted_event_id) :
           Apply(res)
    /\ last' = [NoEvent EXCEPT !.event = "redaction", !.sender = member,
                               !.target = redacted_event_id,
                               !.was_news = (redacted_event_id \in DOMAIN news_map),
                               !.arg = TaggedNames(news_map, redacted_event_id)]
    /\ UNCHANGED <<config, nextId>>

\* Bot::on_admin_room_message, the command !clear
ClearCommand(member) ==
    /\ Apply(on_admin_clear(config, news_map, member))
    /\ last' = [NoEvent EXCEPT !.event = "clear", !.sender = member]
    /\ UNCHANGED <<config, room, nextId>>

\* a text without the bot's name whose m.mentions names the bot
MentionsContent ==
    [msgtype |-> "text", body |-> BodyPlain, source |-> "none", uri |-> ""]

\* the events an edit or a reaction relates to: a message of the room, or 0
\* for any other event (a reaction, a redacted message, an unknown id)
Targets == (DOMAIN room) \cup {0}

\* the new texts of edits
EditBodies == {BodyMentionShort}

Next ==
    \/ \E sender \in Reporters, content \in Contents :
          MessageCreated(sender, content, FALSE)
    \/ \E sender \in Reporters :
          MessageCreated(sender, MentionsContent, TRUE)
    \/ \E event_id \in DOMAIN room : MessageRedelivered(event_id)
    \/ \E target \in Targets, body \in EditBodies :
          MessageEdited(target, body)
    \/ \E sender \in Users, key \in ReactionKeys, target \in Targets :
          ReactionAdded(sender, key, target)
    \/ \E member \in {"al"}, redacted_event_id \in 0..(nextId - 1) :
          Redaction(member, redacted_event_id)
    \/ \E member \in {Editor, "al"} : ClearCommand(member)

Spec == Init /\ [][Next]_vars

---------------------------------------------------------------------------
(* What the claims speak of *)

\* the section and project tags of every News
TagMaps ==
    [k \in DOMAIN news_map |->
        <<news_map[k].section_names, news_map[k].project_names>>]

\* the media of every News
MediaMaps ==
    [k \in DOMAIN news_map |-> <<news_map[k].images, news_map[k].videos>>]

\* the annotation ids that attached media to some News
MediaKeys ==
    UNION {(DOMAIN news_map[k].images) \cup (DOMAIN news_map[k].videos) :
              k \in DOMAIN news_map}

\* the annotation ids that tagged some News
TagKeys ==
    UNION {(DOMAIN news_map[k].section_names) \cup (DOMAIN news_map[k].project_names) :
              k \in DOMAIN news_map}

ReactionBy(kinds, msgtypes) ==
    /\ last.event = "reaction"
    /\ last.kind \in kinds
    /\ last.msgtype \in msgtypes

LastByEditor == last.sender \in config.editors

LastByAuthor == last.sender = last.author

\* the last reaction was handled although its sender is no editor, not the
\* author of the related message, and notices are restricted
LastByStranger ==
    /\ ~LastByEditor
    /\ ~LastByAuthor
    /\ config.restrict_notice

---------------------------------------------------------------------------
(* C1 *)

\* C1 (as claimed): a reaction classified as Section or Project whose sender
\* is not an editor changes no tag map of any News, whatever restrict_notice is.
C1_NonEditorTagsNothing ==
    [][ (/\ last'.event = "reaction"
         /\ last'.kind \in {"section", "project"}
         /\ last'.sender \notin config.editors)
        => TagMaps' = TagMaps ]_vars

---------------------------------------------------------------------------
(* C2 *)

\* the last event was a notice reaction that made a News of a text or notice
\* message that was none
NoticeCreatedNews ==
    /\ ReactionBy({"notice"}, {"text", "notice"})
    /\ ~last.was_news
    /\ last.target \in DOMAIN news_map

\* C2 (as claimed): a notice reaction creates a News only if the reactor is an
\* editor, or is the sender of the message and public notices are allowed
\* (restrict_notice is off).
C2_Original ==
    NoticeCreatedNews =>
        (LastByEditor \/ (LastByAuthor /\ ~config.restrict_notice))

\* C2 (amended): a notice reaction on a text or notice message that is not yet
\* a News creates a News only if the reactor is not the bot and is an editor,
\* or is the sender of the message, or restrict_notice is off.
C2_NoticeCreatesOnlyIfAllowed ==
    NoticeCreatedNews =>
        /\ last.sender # BotUserId
        /\ (LastByEditor \/ LastByAuthor \/ ~config.restrict_notice)

\* a non-editor made a News of their own message while notices are restricted
C2_Witness ==
    /\ NoticeCreatedNews
    /\ ~LastByEditor
    /\ LastByAuthor
    /\ config.restrict_notice

---------------------------------------------------------------------------
(* C3 *)

\* the last event was a notice reaction on an image or video that attached it
MediaAttached ==
    /\ ReactionBy({"notice"}, {"image", "video"})
    /\ last.id \in MediaKeys

\* C3 (as claimed, for the reactors every reading of the rule turns away): a
\* notice reaction on an image or a video attaches nothing when the reactor is
\* no editor, is not the sender of the media, and notices are restricted; the
\* rule is the same for images and videos.
C3_StrangerAttachesNoMedia ==
    MediaAttached => ~LastByStranger

---------------------------------------------------------------------------
(* C4 *)

\* the last reaction came from a user who lacks the privilege for what it
\* asks on every reading of the rule: notices are restricted, the user is no
\* editor, and the reaction is a section or project tag, or a notice on a
\* message of someone else
LastUnprivileged ==
    /\ last.event = "reaction"
    /\ last.author # ""
    /\ config.restrict_notice
    /\ ~LastByEditor
    /\ \/ last.kind \in {"section", "project"}
       \/ last.kind = "notice" /\ ~LastByAuthor

\* C4 (as claimed): a reaction from a user who lacks the privilege for the
\* action it would trigger changes no state and sends no message to any room.
C4_UnprivilegedIsSilent ==
    [][ LastUnprivileged' => (news_map' = news_map /\ out' = <<>>) ]_vars

---------------------------------------------------------------------------
(* The store on its own: NewsStore and News called directly *)

\* the ids of the News given to the store
StoreIds == 1..MaxEvents

\* the News given to add_news
StoreNews ==
    {News_new(id, "al", m, id) : id \in StoreIds, m \in {BodyPlain, <<"p", " ", "x", "x">>}}

\* the reaction that tags, and the reaction that attaches an image
StoreTagId == MaxEvents + 1

StoreImageId == MaxEvents + 2

InitStore ==
    /\ config \in Configs
    /\ news_map = EmptyMap
    /\ disk = EmptyMap
    /\ room = EmptyMap
    /\ nextId = MaxEvents + 1
    /\ out = <<>>
    /\ last = NoEvent
    /\ lock = 0
    /\ tasks = [t \in Tasks |-> Idle]

\* NewsStore::add_news
StoreAdd(news) ==
    /\ news_map' = NewsStore_add_news(news_map, news)
    /\ disk' = news_map'
    /\ last' = [NoEvent EXCEPT !.event = "add", !.id = news.event_id,
                               !.was_news = (news.event_id \in DOMAIN news_map),
                               !.arg = {news}]
    /\ UNCHANGED <<config, room, nextId, out, lock, tasks>>

\* NewsStore::remove_news
StoreRemove(event_id) ==
    /\ news_map' = NewsStore_remove_news(news_map, event_id).map
    /\ disk' = IF NewsStore_remove_news(news_map, event_id).ok THEN news_map' ELSE disk
    /\ last' = [NoEvent EXCEPT !.event = "remove", !.id = event_id,
                               !.was_news = (event_id \in DOMAIN news_map)]
    /\ UNCHANGED <<config, room, nextId, out, lock, tasks>>

\* News::add_section_name on the News news_by_message_id returns
StoreTag(event_id) ==
    /\ news_by_message_id(news_map, event_id) # {}
    /\ news_map' = [news_map EXCEPT ![event_id] = add_section_name(@, StoreTagId, "s1")]
    /\ last' = [NoEvent EXCEPT !.event = "tag", !.id = event_id, !.was_news = TRUE]
    /\ UNCHANGED <<config, disk, room, nextId, out, lock, tasks>>

\* News::add_image on the News news_by_message_id returns
StoreAttach(event_id) ==
    /\ news_by_message_id(news_map, event_id) # {}
    /\ news_map' = [news_map EXCEPT ![event_id] =
                        add_image(@, StoreImageId, 0, <<"f">>, "mxc1")]
    /\ last' = [NoEvent EXCEPT !.event = "attach", !.id = event_id, !.was_news = TRUE]
    /\ UNCHANGED <<config, disk, room, nextId, out, lock, tasks>>

\* NewsStore::clear_news
StoreClear ==
    /\ news_map' = clear_news(news_map)
    /\ disk' = news_map'
    /\ last' = [NoEvent EXCEPT !.event = "clear_news"]
    /\ UNCHANGED <<config, room, nextId, out, lock, tasks>>

NextStore ==
    \/ \E news \in StoreNews : StoreAdd(news)
    \/ \E event_id \in StoreIds : StoreRemove(event_id)
    \/ \E event_id \in StoreIds : StoreTag(event_id)
    \/ \E event_id \in StoreIds : StoreAttach(event_id)
    \/ StoreClear

SpecStore == InitStore /\ [][NextStore]_vars

---------------------------------------------------------------------------
(* C5 *)

---------------------------------------------------------------------------
(* C6, C7 *)

\* the message the event l submitted as a News in the room rm: a text with a
\* mention of the bot, or the text or notice that a notice reaction which is
\* not turned away relates to; 0 when the event submitted nothing
SubmittedBy(l, rm) ==
    IF /\ l.event = "message"
       /\ l.msgtype = "text"
       /\ l.id \in DOMAIN rm
       /\ (l.mentions \/ msg_starts_with_mention(rm[l.id].body))
    THEN l.id
    ELSE IF /\ l.event = "reaction"
            /\ l.kind = "notice"
            /\ l.msgtype \in {"text", "notice"}
            /\ l.sender # BotUserId
            /\ (l.sender \in config.editors \/ l.sender = l.author
                    \/ ~config.restrict_notice)
    THEN l.target
    ELSE 0

Submitted == SubmittedBy(last, room)

\* the body without the bot's name is not longer than the minimum
TooShort(body) == ByteLen(remove_bot_name(body)) <= MinLength

\* the only message sent rejects the update of reporter for its length
RejectedForLength(sent, reporter) ==
    sent = <<Sent("reporting", "too_short", reporter, 0, "")>>

\* C6: a submission, by mention or by notice reaction, of a message that is
\* a News already leaves the store as it is and sends one message, the
\* duplicate warning to the moderation room (no acknowledgment, no submission
\* notice, no rejection for length, even when the body is too short).
C6_ResubmissionIsNoOp ==
    [][ LET id == SubmittedBy(last', room')
        IN  (id # 0 /\ last'.was_news)
            => /\ news_map' = news_map
               /\ out' = <<Sent("admin", "resubmit", "", id, "")>> ]_vars

\* a too short message that is a News was submitted again and the moderation
\* room was told of the duplicate
C6_Witness ==
    /\ Submitted # 0
    /\ last.was_news
    /\ TooShort(room[Submitted].body)
    /\ out = <<Sent("admin", "resubmit", "", Submitted, "")>>

\* C7 (as claimed): a submission creates a News only if the body is longer
\* than the minimum after stripping the mention; when it is not longer, the
\* store is unchanged and the only message sent tells the reporter that the
\* update was rejected for length.
C7_Original ==
    [][ LET id == SubmittedBy(last', room')
        IN  id # 0 =>
              LET msg == room'[id]
              IN  /\ id \in (DOMAIN news_map') \ (DOMAIN news_map)
                        => ~TooShort(msg.body)
                  /\ TooShort(msg.body)
                        => /\ news_map' = news_map
                           /\ RejectedForLength(out', msg.sender) ]_vars

\* C7 (amended): a submission of a message that is not yet a News creates a
\* News only if the stripped body is longer than the minimum length; when it
\* is not longer, the store is unchanged and the only message sent is the
\* rejection for length to the reporter (no suggestion reaction, no submission
\* notice); when it is longer the News is stored with the stripped body.
C7_LengthDecidesFreshSubmission ==
    [][ LET id == SubmittedBy(last', room')
        IN  (id # 0 /\ ~last'.was_news) =>
              LET msg == room'[id]
              IN  IF TooShort(msg.body)
                  THEN /\ news_map' = news_map
                       /\ RejectedForLength(out', msg.sender)
                  ELSE /\ DOMAIN news_map' = (DOMAIN news_map) \cup {id}
                       /\ news_map'[id].message = remove_bot_name(msg.body)
                       /\ \A k \in DOMAIN news_map : news_map'[k] = news_map[k]
      ]_vars

\* a submission by notice reaction was rejected for length
C7_Witness ==
    /\ Submitted # 0
    /\ last.event = "reaction"
    /\ ~last.was_news
    /\ TooShort(room[Submitted].body)
    /\ Submitted \notin DOMAIN news_map
    /\ RejectedForLength(out, room[Submitted].sender)

---------------------------------------------------------------------------
(* C8, C9, C10 *)

MapWithout(news, key) ==
    [news EXCEPT !.section_names = MapRemove(@, key),
                 !.project_names = MapRemove(@, key)]

\* C8: the retraction of a reaction that tagged a News with a section or a
\* project removes the entry of that reaction and nothing else, keeps the News
\* stored, tells the moderation room of the removal, and leaves the News
\* unassigned when that was its only tag.
C8_TagRetraction ==
    [][ (last'.event = "redaction" /\ last'.target \in TagKeys)
        => /\ last'.target \notin TagKeys'
           /\ DOMAIN news_map' = DOMAIN news_map
           /\ \A k \in DOMAIN news_map :
                 /\ news_map'[k] = MapWithout(news_map[k], last'.target)
                 /\ (DOMAIN news_map[k].section_names) \cup
                    (DOMAIN news_map[k].project_names) = {last'.target}
                        => ~is_assigned(news_map'[k])
           /\ Len(out') = 1
           /\ out'[1].room = "admin"
           /\ out'[1].kind = "reaction_removed"
           /\ out'[1].ref = last'.target ]_vars

\* the only tag of a News, a project, was retracted: the News is stored and
\* unassigned
C8_Witness ==
    /\ last.event = "redaction"
    /\ Len(out) = 1
    /\ out[1].kind = "reaction_removed"
    /\ out[1].text = "project"
    /\ \E k \in DOMAIN news_map : ~is_assigned(news_map[k])

C10_NewsLeavesOnlyByRetraction ==
    [][ /\ \A k \in DOMAIN news_map :
              k \notin DOMAIN news_map'
                  => \/ /\ last'.event = "redaction"
                        /\ last'.target = k
                     \/ /\ last'.event = "clear"
                        /\ last'.sender \in config.editors
        /\ (last'.event = "redaction" /\ last'.was_news)
              => news_map' = MapRemove(news_map, last'.target)
        /\ last'.event \in {"edit", "reaction"}
              => DOMAIN news_map \subseteq DOMAIN news_map' ]_vars

\* the message of a tagged News was retracted and another News is still stored
C10_Witness ==
    /\ last.event = "redaction"
    /\ last.was_news
    /\ last.target \notin DOMAIN news_map
    /\ news_map # EmptyMap
    /\ Len(out) = 1
    /\ out[1].kind = "news_deleted"

---------------------------------------------------------------------------
(* C11, C12, C13 *)

\* the entries of the map m under every key but key
Others(m, key) == [k \in (DOMAIN m) \ {key} |-> m[k]]

\* the names a tag map holds
Names(m) == {m[k] : k \in DOMAIN m}

\* C11: the retraction of a tagging reaction leaves every entry of every
\* other annotation id as it was, in the section tags, project tags, images
\* and videos of the same News and of every other News; a name that another
\* reaction gave the News as well stays among its names.
C11_RetractionLeavesOtherEntries ==
    [][ (last'.event = "redaction" /\ last'.target \in TagKeys)
        => \A k \in DOMAIN news_map :
              /\ k \in DOMAIN news_map'
              /\ Others(news_map'[k].section_names, last'.target)
                    = Others(news_map[k].section_names, last'.target)
              /\ Others(news_map'[k].project_names, last'.target)
                    = Others(news_map[k].project_names, last'.target)
              /\ news_map'[k].images = news_map[k].images
              /\ news_map'[k].videos = news_map[k].videos
              /\ Names(Others(news_map[k].section_names, last'.target))
                    \subseteq Names(news_map'[k].section_names)
              /\ Names(Others(news_map[k].project_names, last'.target))
                    \subseteq Names(news_map'[k].project_names) ]_vars

\* one of two reactions that gave a News the same name was retracted and
\* the News still has the name
C11_Witness ==
    /\ last.event = "redaction"
    /\ Len(out) = 1
    /\ out[1].kind = "reaction_removed"
    /\ \E k \in DOMAIN news_map :
          \/ last.arg \cap Names(news_map[k].section_names) # {}
          \/ last.arg \cap Names(news_map[k].project_names) # {}

C13_AssignedIffTagged ==
    /\ \A k \in DOMAIN news_map :
          is_assigned(news_map[k])
              <=> Cardinality(DOMAIN news_map[k].section_names)
                  + Cardinality(DOMAIN news_map[k].project_names) > 0
    /\ (Submitted # 0 /\ ~last.was_news /\ Submitted \in DOMAIN news_map)
          => ~is_assigned(news_map[Submitted])

\* a News with an image and without tags is not assigned
C13_Witness ==
    \E k \in DOMAIN news_map :
        /\ DOMAIN news_map[k].images # {}
        /\ DOMAIN news_map[k].section_names = {}
        /\ DOMAIN news_map[k].project_names = {}
        /\ ~is_assigned(news_map[k])

---------------------------------------------------------------------------
(* C15 *)

\* C15: an edit of a message that is a News replaces its text by the new text
\* without the bot's name and leaves its id, reporter, timestamp, tags and
\* media and every other News as they were; the moderation room is warned
\* exactly when the News is assigned; an edit of a message that is no News
\* changes nothing and sends nothing.
C15_EditReplacesOnlyMessage ==
    [][ last'.event = "edit" =>
          LET id == last'.target
          IN  IF id \in DOMAIN news_map
              THEN /\ \E body \in last'.arg :
                         news_map' = [news_map EXCEPT
                                        ![id].message = remove_bot_name(body)]
                   /\ out' = IF is_assigned(news_map[id])
                             THEN <<Sent("admin", "edited", news_map[id].reporter_id,
                                         id, "")>>
                             ELSE <<>>
              ELSE news_map' = news_map /\ out' = <<>> ]_vars

\* an assigned News was edited: its text is the new one without the bot's
\* name, it is still assigned, and the moderation room was warned
C15_Witness ==
    /\ last.event = "edit"
    /\ last.was_news
    /\ last.target \in DOMAIN news_map
    /\ is_assigned(news_map[last.target])
    /\ \E body \in last.arg :
          /\ news_map[last.target].message = remove_bot_name(body)
          /\ body # remove_bot_name(body)
    /\ Len(out) = 1
    /\ out[1].kind = "edited"

---------------------------------------------------------------------------
(* The News methods, called on one News *)

\* the reactions that tag the News
NewsTagIds == (MaxEvents + 1)..(MaxEvents + 3)

NewsSectionNames == {Sections[i].name : i \in DOMAIN Sections}

NewsProjectNames == {Projects[i].name : i \in DOMAIN Projects}

InitNews ==
    /\ config \in Configs
    /\ news_map = MapInsert(EmptyMap, 1, News_new(1, "al", BodyPlain, 1))
    /\ disk = news_map
    /\ room = EmptyMap
    /\ nextId = MaxEvents + 1
    /\ out = <<>>
    /\ last = NoEvent
    /\ lock = 0
    /\ tasks = [t \in Tasks |-> Idle]

\* News::add_section_name
NewsAddSection(event_id, name) ==
    /\ news_map' = [news_map EXCEPT ![1] = add_section_name(@, event_id, name)]
    /\ last' = [NoEvent EXCEPT !.event = "add_section_name", !.id = event_id,
                               !.arg = {name}]
    /\ UNCHANGED <<config, disk, room, nextId, out, lock, tasks>>

\* News::add_project_name
NewsAddProject(event_id, name) ==
    /\ news_map' = [news_map EXCEPT ![1] = add_project_name(@, event_id, name)]
    /\ last' = [NoEvent EXCEPT !.event = "add_project_name", !.id = event_id,
                               !.arg = {name}]
    /\ UNCHANGED <<config, disk, room, nextId, out, lock, tasks>>

\* News::remove_reaction_id
NewsRemoveReaction(event_id) ==
    /\ news_map' = [news_map EXCEPT ![1] = remove_reaction_id(@, event_id)]
    /\ last' = [NoEvent EXCEPT !.event = "remove_reaction_id", !.id = event_id]
    /\ UNCHANGED <<config, disk, room, nextId, out, lock, tasks>>

NextNews ==
    \/ \E event_id \in NewsTagIds, name \in NewsSectionNames : NewsAddSection(event_id, name)
    \/ \E event_id \in NewsTagIds, name \in NewsProjectNames : NewsAddProject(event_id, name)
    \/ \E event_id \in NewsTagIds : NewsRemoveReaction(event_id)

SpecNews == InitNews /\ [][NextNews]_vars

---------------------------------------------------------------------------
(* C14 *)

\* how often a list holds a name
Occurrences(names, name) == Cardinality({i \in 1..Len(names) : names[i] = name})

\* the annotation ids that gave a tag map a name
IdsOf(m, name) == {k \in DOMAIN m : m[k] = name}

\* C14: inserting a tag under an annotation id and a name a second time
\* leaves the News as the first insertion left it; inserting the name under a
\* second annotation id makes two entries; and section_names() and
\* project_names() list every name the News holds exactly once, however many
\* annotation ids gave it.
C14_TagInsertionIdempotent ==
    LET news == news_map[1]
    IN  /\ \A id \in NewsTagIds, name \in NewsSectionNames :
            LET once == add_section_name(news, id, name)
            IN  /\ add_section_name(once, id, name) = once
                /\ \A id2 \in NewsTagIds \ {id} :
                      {id, id2} \subseteq IdsOf(add_section_name(once, id2, name).section_names, name)
        /\ \A id \in NewsTagIds, name \in NewsProjectNames :
            LET once == add_project_name(news, id, name)
            IN  /\ add_project_name(once, id, name) = once
                /\ \A id2 \in NewsTagIds \ {id} :
                      {id, id2} \subseteq IdsOf(add_project_name(once, id2, name).project_names, name)
        /\ \A name \in NewsSectionNames :
            Occurrences(News_section_names(news), name)
                = IF IdsOf(news.section_names, name) = {} THEN 0 ELSE 1
        /\ \A name \in NewsProjectNames :
            Occurrences(News_project_names(news), name)
                = IF IdsOf(news.project_names, name) = {} THEN 0 ELSE 1
        /\ Len(News_section_names(news)) = Cardinality(Names(news.section_names))
        /\ Len(News_project_names(news)) = Cardinality(Names(news.project_names))

\* two reactions gave the News the same section and two the same project
C14_Witness ==
    /\ last.event = "add_section_name"
    /\ \E name \in last.arg : Cardinality(IdsOf(news_map[1].section_names, name)) = 2
    /\ \E name \in NewsProjectNames : Cardinality(IdsOf(news_map[1].project_names, name)) = 2

---------------------------------------------------------------------------
(* The handlers step by step: the store lock, the waits on the network, and
   the places where the store is changed and written *)

\* the steps of a handler, in the order of its code: "fetch", "send" and
\* "upload" wait on the network, "lock" and "unlock" take and drop the guard
\* of news_store, "check" is the lookup of add_news, "mutate" changes the
\* store in memory, "write" is write_data, "render" is render::render; the
\* handler "notice" is the reaction handler for a notice emoji on a text,
\* which calls add_news and then writes the store
Program_send_locked(handler) ==
    CASE handler = "message" ->
            <<"fetch", "lock", "check", "unlock", "fetch", "send",
              "lock", "mutate", "write", "unlock">>
      [] handler = "edit" -> <<"fetch", "lock", "mutate", "write", "send", "unlock">>
      [] handler = "reaction" ->
            <<"fetch", "lock", "mutate", "unlock", "send", "lock", "write", "unlock">>
      [] handler = "redaction" -> <<"lock", "mutate", "write", "unlock", "send">>
      [] handler = "clear" -> <<"fetch", "lock", "mutate", "write", "unlock", "send">>
      [] handler = "render" -> <<"fetch", "lock", "render", "unlock", "upload", "send">>
      [] handler = "notice" ->
            <<"fetch", "lock", "check", "unlock", "fetch", "send",
              "lock", "mutate", "write", "unlock", "lock", "write", "unlock">>
      [] OTHER -> <<>>

\* the programs, had clear_command taken the lock again for write_data
Program_relock(handler) ==
    CASE handler = "message" ->
            <<"fetch", "lock", "check", "unlock", "fetch", "send",
              "lock", "mutate", "write", "unlock">>
      [] handler = "edit" -> <<"fetch", "lock", "mutate", "write", "unlock", "send">>
      [] handler = "reaction" ->
            <<"fetch", "lock", "mutate", "unlock", "send", "lock", "write", "unlock">>
      [] handler = "redaction" -> <<"lock", "mutate", "write", "unlock", "send">>
      [] handler = "clear" ->
            <<"fetch", "lock", "mutate", "lock", "write", "unlock", "send">>
      [] handler = "render" -> <<"fetch", "lock", "render", "unlock", "upload", "send">>
      [] handler = "notice" ->
            <<"fetch", "lock", "check", "unlock", "fetch", "send",
              "lock", "mutate", "write", "unlock", "lock", "write", "unlock">>
      [] OTHER -> <<>>

Program(handler) ==
    CASE handler = "message" ->
            <<"fetch", "lock", "check", "unlock", "fetch", "send",
              "lock", "mutate", "write", "unlock">>
      [] handler = "edit" -> <<"fetch", "lock", "mutate", "write", "unlock", "send">>
      [] handler = "reaction" ->
            <<"fetch", "lock", "mutate", "unlock", "send", "lock", "write", "unlock">>
      [] handler = "redaction" -> <<"lock", "mutate", "write", "unlock", "send">>
      [] handler = "clear" -> <<"fetch", "lock", "mutate", "write", "unlock", "send">>
      [] handler = "render" -> <<"fetch", "lock", "render", "unlock", "upload", "send">>
      [] handler = "notice" ->
            <<"fetch", "lock", "check", "unlock", "fetch", "send",
              "lock", "mutate", "write", "unlock", "lock", "write", "unlock">>
      [] OTHER -> <<>>

\* a handler whose send_message panicked, and a process that the panic ended
Aborted == 0 - 1

Crashed == 0 - 2

Running == \A t \in Tasks : tasks[t].pc # Crashed

\* the step a handler is at
KindOf(task) ==
    IF task.pc \in 1..Len(Program(task.handler))
    THEN Program(task.handler)[task.pc]
    ELSE "none"

StepKind(t) == KindOf(tasks[t])

\* the handler after a step: at its next step, or returned
Advance(task) ==
    IF task.pc >= Len(Program(task.handler)) THEN Idle ELSE [task EXCEPT !.pc = @ + 1]

\* the text of the message or edit a handler was called with
BodyOf(task) == CHOOSE body \in task.ev.arg : TRUE

\* the steps the code does not reach: after a resubmission or a too short
\* text add_news stores nothing (and a resubmission returns before the display
\* name is fetched), after an early return the reaction handler does not
\* write, and nothing is sent when there is no message
Skipped(task) ==
    LET kind == KindOf(task)
    IN  \/ /\ task.handler \in {"message", "notice"}
           /\ task.pc > 4
           /\ task.pc <= 10
           /\ task.change = "none"
           /\ \/ kind \in {"lock", "mutate", "write", "unlock"}
              \/ kind = "fetch" /\ task.pending # <<>> /\ task.pending[1].kind = "resubmit"
        \/ /\ task.handler = "reaction"
           /\ task.pc > 4
           /\ ~task.res.wrote
           /\ kind \in {"lock", "write", "unlock"}
        \/ /\ task.handler \in {"edit", "redaction", "clear"}
           /\ kind = "write"
           /\ ~task.res.wrote
        \/ kind = "send" /\ task.pending = <<>>

\* what the handler of a task does to the store nm, and what it will send
HandlerOutcomes(task, cfg, nm, rm) ==
    CASE task.handler = "edit" ->
            {on_reporting_room_msg_edit(nm, BodyOf(task), task.ev.target)}
      [] task.handler = "reaction" ->
            IF task.ev.target \in DOMAIN rm
            THEN on_reporting_room_reaction(cfg, nm, task.ev.sender,
                                            StripVS(BodyOf(task)), task.ev.id,
                                            task.ev.target, rm[task.ev.target])
            ELSE {Outcome(nm, <<>>, FALSE)}
      [] task.handler = "redaction" ->
            on_reporting_room_redaction(nm, task.ev.sender, task.ev.target)
      [] task.handler = "clear" -> {on_admin_clear(cfg, nm, task.ev.sender)}
      [] OTHER -> {Outcome(nm, <<>>, FALSE)}

\* an event arrives and its handler is called (it becomes the first of the
\* futures that are not in flight)
Start(t, handler, ev) ==
    /\ Running
    /\ tasks[t] = Idle
    /\ \A u \in Tasks : u < t => tasks[u] # Idle
    /\ nextId <= MaxEvents + 1
    /\ nextId' = nextId + 1
    /\ tasks' = [tasks EXCEPT ![t] = [Idle EXCEPT !.handler = handler, !.pc = 1, !.ev = ev]]
    /\ UNCHANGED <<config, news_map, disk, out, last, lock>>

\* Bot::on_room_message, a new text that mentions the bot
StartMessage(t, sender, body) ==
    /\ Start(t, "message", [NoEvent EXCEPT !.event = "message", !.id = nextId,
                                           !.sender = sender, !.arg = {body}])
    /\ room' = MapInsert(room, nextId,
                 [sender |-> sender, msgtype |-> "text", body |-> body,
                  source |-> "none", uri |-> ""])

\* Bot::on_room_message, an edit
StartEdit(t, target, body) ==
    /\ IsMessage(target)
    /\ room[target].msgtype = "text"
    /\ Start(t, "edit", [NoEvent EXCEPT !.event = "edit", !.id = nextId,
                                        !.target = target, !.arg = {body}])
    /\ room' = [room EXCEPT ![target].body = body]

\* Bot::on_room_reaction, a section or project emoji, or the notice emoji on
\* an image or video
StartReaction(t, sender, key, target) ==
    /\ IsMessage(target)
    /\ reaction_type_by_emoji(StripSuggestion(StripVS(key))).kind = "notice"
          => room[target].msgtype # "text"
    /\ Start(t, "reaction", [NoEvent EXCEPT !.event = "reaction", !.id = nextId,
                                            !.sender = sender, !.target = target,
                                            !.arg = {key}])
    /\ UNCHANGED room

\* Bot::on_room_redaction
StartRedaction(t, member, redacted_event_id) ==
    /\ Start(t, "redaction", [NoEvent EXCEPT !.event = "redaction", !.id = nextId,
                                             !.sender = member,
                                             !.target = redacted_event_id])
    /\ room' = MapRemove(room, redacted_event_id)

\* Bot::on_admin_room_message, !clear of an editor
StartClear(t, member) ==
    /\ is_editor(config, member)
    /\ Start(t, "clear", [NoEvent EXCEPT !.event = "clear", !.id = nextId,
                                         !.sender = member])
    /\ UNCHANGED room

\* Bot::on_admin_room_message, !render of an editor
StartRender(t, member) ==
    /\ is_editor(config, member)
    /\ Start(t, "render", [NoEvent EXCEPT !.event = "render", !.id = nextId,
                                          !.sender = member])
    /\ UNCHANGED room

\* Bot::on_room_message, an image: the handler does nothing
MediaPosted(sender) ==
    /\ Running
    /\ nextId <= MaxEvents + 1
    /\ nextId' = nextId + 1
    /\ room' = MapInsert(room, nextId,
                 [sender |-> sender, msgtype |-> "image", body |-> <<"f">>,
                  source |-> "plain", uri |-> "mxc1"])
    /\ UNCHANGED <<config, news_map, disk, out, last, lock, tasks>>

\* the handler of task t is at a step of this kind, and the code reaches it
AtStep(t, kind) ==
    /\ Running
    /\ tasks[t].pc >= 1
    /\ StepKind(t) = kind
    /\ ~Skipped(tasks[t])

\* a step the code does not reach
Skip(t) ==
    /\ Running
    /\ tasks[t].pc >= 1
    /\ Skipped(tasks[t])
    /\ tasks' = [tasks EXCEPT ![t] = Advance(@)]
    /\ UNCHANGED <<config, news_map, disk, room, nextId, out, last, lock>>

\* self.news_store.lock().unwrap()
Lock(t) ==
    /\ AtStep(t, "lock")
    /\ lock = 0
    /\ lock' = t
    /\ tasks' = [tasks EXCEPT ![t] = Advance(@)]
    /\ UNCHANGED <<config, news_map, disk, room, nextId, out, last>>

\* the guard is dropped
Unlock(t) ==
    /\ AtStep(t, "unlock")
    /\ lock' = 0
    /\ tasks' = [tasks EXCEPT ![t] = Advance(@)]
    /\ UNCHANGED <<config, news_map, disk, room, nextId, out, last>>

\* get_member, room_event_by_id, is_editor, get_display_name: the answer comes
Fetch(t) ==
    /\ AtStep(t, "fetch")
    /\ tasks' = [tasks EXCEPT ![t] = Advance(@)]
    /\ UNCHANGED <<config, news_map, disk, room, nextId, out, last, lock>>

\* the id of the message a handler submits
SubmittedId(task) == IF task.handler = "notice" THEN task.ev.target ELSE task.ev.id

\* add_news: the lookup of the id, and what add_news will do and send
Check(t) ==
    /\ AtStep(t, "check")
    /\ LET task == tasks[t]
           res == IF task.handler = "notice"
                  THEN Bot_add_news(news_map,
                            News_new(task.ev.target, room[task.ev.target].sender,
                                     room[task.ev.target].body, task.ev.id),
                            FALSE)
                  ELSE on_reporting_room_msg(news_map, BodyOf(task), FALSE, task.ev.sender,
                                             task.ev.id, task.ev.id)
       IN  tasks' = [tasks EXCEPT ![t] =
                Advance([task EXCEPT !.res = res, !.pending = res.out,
                                     !.change = IF res.nm # news_map THEN "pending"
                                                ELSE "none"])]
    /\ UNCHANGED <<config, news_map, disk, room, nextId, out, last, lock>>

\* the handler changes the store in memory: set_message, add_section_name,
\* add_project_name, add_image, add_video, remove_news, remove_file,
\* remove_reaction_id, clear_news, and the insert of NewsStore::add_news
Mutate(t) ==
    /\ AtStep(t, "mutate")
    /\ LET task == tasks[t]
       IN  IF task.handler \in {"message", "notice"}
           THEN /\ news_map' = NewsStore_add_news(news_map, task.res.nm[SubmittedId(task)])
                /\ tasks' = [tasks EXCEPT ![t] = Advance([task EXCEPT !.change = "memory"])]
           ELSE \E res \in HandlerOutcomes(task, config, news_map, room) :
                    /\ news_map' = res.nm
                    /\ tasks' = [tasks EXCEPT ![t] =
                            Advance([task EXCEPT !.res = res, !.pending = res.out,
                                                 !.change = IF res.nm # news_map
                                                            THEN "memory" ELSE "none"])]
    /\ UNCHANGED <<config, disk, room, nextId, out, last, lock>>

\* NewsStore::write_data
Write(t) ==
    /\ AtStep(t, "write")
    /\ disk' = news_map
    /\ tasks' = [tasks EXCEPT ![t] =
            Advance([@ EXCEPT !.change = IF @ = "memory" THEN "saved" ELSE @])]
    /\ UNCHANGED <<config, news_map, room, nextId, out, last, lock>>

\* render_command: news_store.news(), config.clone() and render::render
Render(t) ==
    /\ AtStep(t, "render")
    /\ \E res \in render_command(config, news_map, tasks[t].ev.sender) :
           /\ news_map' = res.nm
           /\ disk' = IF res.wrote THEN res.nm ELSE disk
           /\ tasks' = [tasks EXCEPT ![t] =
                   Advance([@ EXCEPT !.res = res, !.pending = res.out])]
    /\ UNCHANGED <<config, room, nextId, out, last, lock>>

\* client.media().upload: the answer comes
Upload(t) ==
    /\ AtStep(t, "upload")
    /\ tasks' = [tasks EXCEPT ![t] = Advance(@)]
    /\ UNCHANGED <<config, news_map, disk, room, nextId, out, last, lock>>

\* the handler after its next message went out, or was given up
Delivered(task) ==
    IF Len(task.pending) = 1
    THEN Advance([task EXCEPT !.pending = <<>>])
    ELSE [task EXCEPT !.pending = Tail(@)]

\* send_message, send_file, send_reaction: the message is delivered
Send(t) ==
    /\ AtStep(t, "send")
    /\ out' = <<Head(tasks[t].pending)>>
    /\ tasks' = [tasks EXCEPT ![t] = Delivered(@)]
    /\ UNCHANGED <<config, news_map, disk, room, nextId, last, lock>>

\* send_reaction: the delivery fails, which is logged
ReactionFails(t) ==
    /\ AtStep(t, "send")
    /\ Head(tasks[t].pending).kind = "reaction"
    /\ tasks' = [tasks EXCEPT ![t] = Delivered(@)]
    /\ UNCHANGED <<config, news_map, disk, room, nextId, out, last, lock>>

\* send_message, send_file: the delivery fails and expect panics; the panic
\* ends the handler, or the process with it
SendFails(t) ==
    /\ AtStep(t, "send")
    /\ Head(tasks[t].pending).kind # "reaction"
    /\ \E end \in {Aborted, Crashed} :
           tasks' = [tasks EXCEPT ![t] =
                        [Idle EXCEPT !.handler = tasks[t].handler, !.pc = end,
                                     !.change = tasks[t].change, !.failed = TRUE]]
    /\ UNCHANGED <<config, news_map, disk, room, nextId, out, last, lock>>

\* the reactions of the step-by-step handlers
StepKeys == { <<"N", "FE0F">>, <<"S1">>, <<"P1", "?", " ", "?">> }

NextSteps ==
    \/ \E t \in Tasks, body \in {BodyMentionLong, BodyMentionShort} : StartMessage(t, "al", body)
    \/ \E t \in Tasks, target \in DOMAIN room, body \in EditBodies : StartEdit(t, target, body)
    \/ \E t \in Tasks, key \in StepKeys, target \in DOMAIN room : StartReaction(t, Editor, key, target)
    \/ \E t \in Tasks, id \in 1..(nextId - 1) : StartRedaction(t, Editor, id)
    \/ \E t \in Tasks : StartClear(t, Editor)
    \/ \E t \in Tasks : StartRender(t, Editor)
    \/ MediaPosted("al")
    \/ \E t \in Tasks : Skip(t)
    \/ \E t \in Tasks : Lock(t)
    \/ \E t \in Tasks : Unlock(t)
    \/ \E t \in Tasks : Fetch(t)
    \/ \E t \in Tasks : Check(t)
    \/ \E t \in Tasks : Mutate(t)
    \/ \E t \in Tasks : Write(t)
    \/ \E t \in Tasks : Render(t)
    \/ \E t \in Tasks : Upload(t)
    \/ \E t \in Tasks : Send(t)
    \/ \E t \in Tasks : ReactionFails(t)
    \/ \E t \in Tasks : SendFails(t)

\* the bot starts as in Init; restrict_notice is off, every reaction of the
\* step-by-step handlers being an editor's
InitSteps ==
    /\ Init
    /\ ~config.restrict_notice

SpecSteps == InitSteps /\ [][NextSteps]_vars

---------------------------------------------------------------------------
(* C16 *)

\* C16: at every point where no handler holds the store lock, the persisted
\* collection equals the collection in memory.
C16_PersistedWhenUnlocked ==
    lock = 0 => disk = news_map

---------------------------------------------------------------------------
(* C17 *)

\* C17: a failed delivery of a confirmation, acknowledgment or submission
\* notice does not end the process, and the change the message reports is in
\* the store and written.
C17_DeliveryFailureKeepsChange ==
    \A t \in Tasks :
        tasks[t].failed =>
            /\ tasks[t].pc # Crashed
            /\ tasks[t].change \in {"none", "saved"}

---------------------------------------------------------------------------
(* C18 *)

\* the steps that wait on the network
AwaitKinds == {"fetch", "send", "upload"}

\* C18: in every interleaving, a handler that waits on the network (sending
\* a message, reaction or file, uploading, fetching a member, an event or a
\* display name) does not hold the store lock.
C18_NoWaitUnderLock ==
    \A t \in Tasks : StepKind(t) \in AwaitKinds => lock # t

\* a handler that changed the store waits on its send while another handler
\* holds the lock
C18_Witness ==
    \E t \in Tasks, u \in Tasks :
        /\ AtStep(t, "send")
        /\ tasks[t].change # "none"
        /\ u # t
        /\ lock = u

---------------------------------------------------------------------------
(* C19 *)

\* C19: the store lock is not held while render::render runs.
C19_RenderRunsUnlocked ==
    \A t \in Tasks : StepKind(t) = "render" => lock # t

---------------------------------------------------------------------------
(* C20 *)

\* C20: no step of a render command changes the store in memory or the
\* persisted collection, whatever the store holds and however often the
\* command is repeated.
C20_RenderChangesNothing ==
    [][ \A t \in Tasks :
            (tasks[t].handler = "render" /\ tasks'[t] # tasks[t])
                => (news_map' = news_map /\ disk' = disk) ]_vars

\* a store that holds a News has been rendered by two commands, which both
\* saw the News
C20_Witness ==
    /\ news_map # EmptyMap
    /\ disk = news_map
    /\ \A t \in Tasks :
          /\ tasks[t].handler = "render"
          /\ tasks[t].pc > 3
          /\ tasks[t].res.out[2].kind = "warnings"

---------------------------------------------------------------------------
(* render::render, called on snapshots *)

\* the tag maps and image maps of the News of a snapshot: reactions 11 and 12
\* give sections, 13 gives the project, 14 and 15 attach the images 3 (mxc1)
\* and 4 (mxc2) of the first reporter; reaction 24 attaches the image 5 of the
\* second reporter, a repost of the file mxc1
SnapshotMaps(ids, values) == UNION {[s -> values] : s \in SUBSET ids}

RenderImages == { <<3, <<"f">>, "mxc1">>, <<4, <<"f">>, "mxc2">> }

\* the first News of a snapshot
RenderNewsOne ==
    {[News_new(1, "al", BodyPlain, 1) EXCEPT
        !.section_names = s, !.project_names = p, !.images = i] :
        s \in SnapshotMaps({11, 12}, {"s1", "s2"}),
        p \in SnapshotMaps({13}, {"p"}),
        i \in {f \in SnapshotMaps({14, 15}, RenderImages) :
                    15 \in DOMAIN f => f[15][3] = "mxc1"}}

\* the second News of a snapshot
RenderNewsTwo ==
    {[News_new(2, "bo", BodyPlain, 2) EXCEPT
        !.section_names = s, !.project_names = p, !.images = i] :
        s \in SnapshotMaps({21}, {"s1", "s2"}),
        p \in SnapshotMaps({23}, {"p"}),
        i \in SnapshotMaps({24}, {<<5, <<"f">>, "mxc1">>})}

\* the snapshots render is called on: no News, one News, two News
RenderSnapshots ==
    {EmptyMap}
    \cup {MapInsert(EmptyMap, 1, a) : a \in RenderNewsOne}
    \cup {MapInsert(MapInsert(EmptyMap, 1, a), 2, b) : a \in RenderNewsOne, b \in RenderNewsTwo}

\* the configurations render is called with: every order of the two
\* sections, the same order for both included
RenderConfigs ==
    [restrict_notice : {FALSE}, editors : {{Editor}},
     section_order : [{"s1", "s2"} -> 1..2]]

InitRender ==
    /\ config \in RenderConfigs
    /\ news_map \in RenderSnapshots
    /\ disk = news_map
    /\ room = EmptyMap
    /\ nextId = 25
    /\ out = <<>>
    /\ last = NoEvent
    /\ lock = 0
    /\ tasks = [t \in Tasks |-> Idle]

\* render_command: news_store.news() and render::render; out holds the result
Rendered(news_list, result) ==
    /\ last.event # "render"
    /\ out' = <<result>>
    /\ last' = [NoEvent EXCEPT !.event = "render", !.sender = Editor, !.arg = {news_list}]
    /\ UNCHANGED <<config, news_map, disk, room, nextId, lock, tasks>>

NextRender ==
    \E news_list \in NewsStore_news(news_map) :
        \E result \in render(news_list, config, Editor) : Rendered(news_list, result)

SpecRender == InitRender /\ [][NextRender]_vars

\* the list render was called on, and the result it gave
RenderedList == CHOOSE news_list \in last.arg : TRUE

RenderResult == out[1]

HasRendered == last.event = "render"


---------------------------------------------------------------------------
(* C21 *)

\* C21: rendering the same list of News once more gives the same result: the
\* same section blocks, project blocks and News in the same places, the same
\* lists of images and videos, the same warnings and notes.
C21_RenderRepeatable ==
    HasRendered =>
        \A again \in render(RenderedList, config, Editor) : again = RenderResult

---------------------------------------------------------------------------
(* C22 *)

\* the elements of a list
Range(list) == {list[i] : i \in DOMAIN list}

\* render_sections of the rendered list (the files of the News play no part
\* in it)
RenderedSections ==
    RenderSections(RenderedList, config,
        [i \in DOMAIN RenderedList |->
            [images |-> CHOOSE l \in deduplicate_files(RenderedList[i].images) : TRUE,
             videos |-> CHOOSE l \in deduplicate_files(RenderedList[i].videos) : TRUE]])

\* the News id is in a group of the project, with this overwritten section
\* ("" for the project's own group), in the RenderSection of the section
InGroup(groups, section, project, overwritten_section, id) ==
    LET key == <<config.section_order[section], section>>
    IN  /\ key \in DOMAIN groups
        /\ \E i \in DOMAIN groups[key].projects :
              /\ groups[key].projects[i].project = project
              /\ groups[key].projects[i].overwritten_section = overwritten_section
              /\ id \in Range(groups[key].projects[i].news)

\* C22: a News tagged with project P and a section that is not P's default
\* section is grouped in a P-under-that-section group in that section, a note
\* about it is given, and it is in no group of P itself; a News tagged with P
\* whose sections all are the default section (or that has none) is grouped
\* in P's own group in the default section.
C22_OverriddenSectionGroup ==
    HasRendered =>
        \A i \in DOMAIN RenderedList :
            LET news == RenderedList[i]
            IN  \A name \in Names(news.project_names) :
                    LET project == project_by_name(config, name)
                        custom == Names(news.section_names) \ {project.default_section}
                    IN  IF custom # {}
                        THEN /\ \A s \in custom :
                                  /\ InGroup(RenderedSections, s, name, s, news.event_id)
                                  /\ [kind |-> "custom_section", id |-> news.event_id,
                                      name |-> s] \in Range(RenderResult.notes)
                             /\ \A s \in {"s1", "s2"} :
                                  ~InGroup(RenderedSections, s, name, "", news.event_id)
                        ELSE InGroup(RenderedSections, project.default_section, name, "",
                                     news.event_id)

\* a News with the project and another section, and a News with the project
\* alone, have been rendered
C22_Witness ==
    /\ HasRendered
    /\ DOMAIN news_map = {1, 2}
    /\ Names(news_map[1].project_names) = {"p"}
    /\ "s2" \in Names(news_map[1].section_names)
    /\ Names(news_map[2].project_names) = {"p"}
    /\ Names(news_map[2].section_names) = {}

---------------------------------------------------------------------------
(* C23 *)

\* C23: the list of images a render returns holds every mxc uri at most once.
C23_FilesListedOnce ==
    HasRendered =>
        \A i, j \in DOMAIN RenderResult.images :
            RenderResult.images[i][2] = RenderResult.images[j][2] => i = j

---------------------------------------------------------------------------
(* C24 *)

\* C24: the section blocks of the document are in ascending order of the
\* sections' order, and in a block the News without project come before the
\* project blocks.
C24_SectionsAscending ==
    HasRendered =>
        /\ \A i, j \in DOMAIN RenderResult.rendered :
              i < j => RenderResult.rendered[i].order < RenderResult.rendered[j].order
        /\ \A b \in DOMAIN RenderResult.rendered :
              \A i, j \in DOMAIN RenderResult.rendered[b].items :
                  (/\ RenderResult.rendered[b].items[i].kind = "news"
                   /\ RenderResult.rendered[b].items[j].kind = "project") => i < j

\* a document of two section blocks, one with a News without project and a
\* project block
C24_Witness ==
    /\ HasRendered
    /\ Len(RenderResult.rendered) = 2
    /\ \E b \in DOMAIN RenderResult.rendered :
          {RenderResult.rendered[b].items[i].kind :
              i \in DOMAIN RenderResult.rendered[b].items} = {"news", "project"}

---------------------------------------------------------------------------
(* C25 *)

\* the ids of the News in the document
DocumentIds(result) ==
    UNION {UNION {Range(result.rendered[b].items[i].news) :
                     i \in DOMAIN result.rendered[b].items} :
              b \in DOMAIN result.rendered}

\* the numbers a result reports: the News included (the summary note) and
\* the News left out (the warning, when there is one)
ReportedIncluded(result) ==
    LET i == CHOOSE j \in DOMAIN result.notes : result.notes[j].kind = "summary"
    IN  result.notes[i].id

LeftOutWarnings(result) ==
    {i \in DOMAIN result.warnings : result.warnings[i].kind = "not_included"}

ReportedExcluded(result) ==
    IF LeftOutWarnings(result) = {} THEN 0
    ELSE result.warnings[CHOOSE i \in LeftOutWarnings(result) : TRUE].id

\* C25: no unassigned News is in the document, the number of News reported
\* as included plus the number reported as left out is the size of the
\* snapshot, and the warning about News left out is given exactly when a
\* News is unassigned.
C25_PartitionByAssignment ==
    HasRendered =>
        LET unassigned == {i \in DOMAIN RenderedList : ~is_assigned(RenderedList[i])}
        IN  /\ \A i \in unassigned : RenderedList[i].event_id \notin DocumentIds(RenderResult)
            /\ ReportedIncluded(RenderResult) + ReportedExcluded(RenderResult)
                    = Len(RenderedList)
            /\ Cardinality(LeftOutWarnings(RenderResult)) = (IF unassigned = {} THEN 0 ELSE 1)
            /\ ReportedExcluded(RenderResult) = Cardinality(unassigned)

\* a snapshot of one assigned and one unassigned News has been rendered
C25_Witness ==
    /\ HasRendered
    /\ DOMAIN news_map = {1, 2}
    /\ is_assigned(news_map[1])
    /\ ~is_assigned(news_map[2])


---------------------------------------------------------------------------
(* C26 *)

\* the timestamps find_related_news is asked about: the days of the model and
\* the day after
Timestamps == 0..(2 * DayLen)

\* C26: find_related_news finds no News exactly when the store holds no News
\* of the reporter, and a News it finds is a News of the reporter such that
\* no News of the reporter is nearer to the timestamp, by the difference of
\* the full timestamps (day and time of day).
C26_NearestByFullTimestamp ==
    \A reporter_id \in Reporters : \A timestamp \in Timestamps :
        LET mine == {k \in DOMAIN news_map : news_map[k].reporter_id = reporter_id}
            found == find_related_news(news_map, reporter_id, timestamp)
        IN  /\ found = {} <=> mine = {}
            /\ \A k \in found :
                  /\ k \in mine
                  /\ \A j \in mine :
                        Abs(news_map[k].timestamp - timestamp)
                            <= Abs(news_map[j].timestamp - timestamp)


---------------------------------------------------------------------------
(* store.json *)

\* the orders in which a HashMap with these keys may be iterated
RECURSIVE Orders(_)
Orders(keys) ==
    IF keys = {} THEN {<<>>}
    ELSE UNION {{<<k>> \o rest : rest \in Orders(keys \ {k})} : k \in keys}

\* an OwnedEventId as a JSON string, and back
serialize_event_id(event_id) == <<"$", event_id>>

deserialize_event_id(string) == string[2]

\* a DateTime<Utc> as a JSON string, the date before the time of day; and back
serialize_timestamp_time_only(timestamp) == <<0, "T", TimeOfDay(timestamp)>>

serialize_timestamp(timestamp) == <<timestamp \div DayLen, "T", TimeOfDay(timestamp)>>

deserialize_timestamp(string) == string[1] * DayLen + string[3]

\* a HashMap<OwnedEventId, String> as a JSON object: its entries, in the
\* order of an iteration
serialize_names(names) ==
    {[i \in DOMAIN order |-> <<serialize_event_id(order[i]), names[order[i]]>>] :
        order \in Orders(DOMAIN names)}

\* a HashMap<OwnedEventId, (OwnedEventId, String, OwnedMxcUri)> as a JSON
\* object of arrays
serialize_files(files) ==
    {[i \in DOMAIN order |->
        <<serialize_event_id(order[i]),
          <<serialize_event_id(files[order[i]][1]), files[order[i]][2],
            files[order[i]][3]>>>>] :
        order \in Orders(DOMAIN files)}

\* a News as a JSON object: its fields, in the order of the struct
serialize_News(news) ==
    {<< <<"event_id", serialize_event_id(news.event_id)>>,
        <<"reporter_id", news.reporter_id>>,
        <<"timestamp", serialize_timestamp(news.timestamp)>>,
        <<"message", news.message>>,
        <<"section_names", section_names>>,
        <<"project_names", project_names>>,
        <<"images", images>>,
        <<"videos", videos>> >> :
        section_names \in serialize_names(news.section_names),
        project_names \in serialize_names(news.project_names),
        images \in serialize_files(news.images),
        videos \in serialize_files(news.videos)}

\* the entries of news_map, in this order of its keys
RECURSIVE serialize_entries(_, _)
serialize_entries(nm, order) ==
    IF order = <<>> THEN {<<>>}
    ELSE {<< <<serialize_event_id(Head(order)), news>> >> \o rest :
            news \in serialize_News(nm[Head(order)]),
            rest \in serialize_entries(nm, Tail(order))}

\* serde_json::to_string_pretty(&self.news_map): the texts write_data may write
to_string_pretty(nm) == UNION {serialize_entries(nm, order) : order \in Orders(DOMAIN nm)}

\* the value of a field of a JSON object
Field(object, name) == object[CHOOSE i \in DOMAIN object : object[i][1] = name][2]

\* a JSON object as a HashMap<OwnedEventId, String>: the entries are inserted
\* in the order of the text
RECURSIVE deserialize_names(_)
deserialize_names(entries) ==
    IF entries = <<>> THEN EmptyMap
    ELSE LET entry == entries[Len(entries)]
         IN  MapInsert(deserialize_names(SubSeq(entries, 1, Len(entries) - 1)),
                       deserialize_event_id(entry[1]), entry[2])

RECURSIVE deserialize_files(_)
deserialize_files(entries) ==
    IF entries = <<>> THEN EmptyMap
    ELSE LET entry == entries[Len(entries)]
         IN  MapInsert(deserialize_files(SubSeq(entries, 1, Len(entries) - 1)),
                       deserialize_event_id(entry[1]),
                       <<deserialize_event_id(entry[2][1]), entry[2][2], entry[2][3]>>)

\* a JSON object as a News
deserialize_News(object) ==
    [event_id |-> deserialize_event_id(Field(object, "event_id")),
     reporter_id |-> Field(object, "reporter_id"),
     message |-> Field(object, "message"),
     timestamp |-> deserialize_timestamp(Field(object, "timestamp")),
     section_names |-> deserialize_names(Field(object, "section_names")),
     project_names |-> deserialize_names(Field(object, "project_names")),
     images |-> deserialize_files(Field(object, "images")),
     videos |-> deserialize_files(Field(object, "videos"))]

\* serde_json::from_str: the news_map NewsStore::read builds from the text
RECURSIVE from_str(_)
from_str(entries) ==
    IF entries = <<>> THEN EmptyMap
    ELSE LET entry == entries[Len(entries)]
         IN  MapInsert(from_str(SubSeq(entries, 1, Len(entries) - 1)),
                       deserialize_event_id(entry[1]), deserialize_News(entry[2]))

---------------------------------------------------------------------------
(* C27 *)

\* C27: in every state the handlers reach (News added, tagged, untagged,
\* given media, edited, removed), every text write_data may write for the
\* store is read back by NewsStore::read as the same news_map.
C27_ReloadGivesSameStore ==
    \A json \in to_string_pretty(news_map) : from_str(json) = news_map

\* a store that was written after a reaction, with a News of the second day
\* that has a tag or a file
C27_Witness ==
    /\ last.event = "reaction"
    /\ disk = news_map
    /\ \E k \in DOMAIN news_map :
          /\ news_map[k].timestamp >= DayLen
          /\ \/ news_map[k].section_names # EmptyMap
             \/ news_map[k].images # EmptyMap


---------------------------------------------------------------------------
(* The classification of reactions *)

\* the longest key of a reaction, in characters
MaxKeyLen == 3

\* the characters of the keys: emojis, the variation selector U+FE0F, the
\* blank and the question mark
KeyChars == {"N", "S1", "P1", "FE0F", " ", "?"}

\* the keys of the reactions
EmojiKeys == UNION {[1..n -> KeyChars] : n \in 1..MaxKeyLen}

\* the configurations: the notice emoji with or without the selector, two
\* sections whose emojis may be the notice emoji, each other's, or that of a
\* project, and two projects
EmojiConfigs ==
    [restrict_notice : {FALSE}, editors : {{Editor}}, section_order : {SectionOrder},
     notice_emoji : {<<"N">>, <<"N", "FE0F">>},
     sections : {<<[name |-> "s1", emoji |-> a], [name |-> "s2", emoji |-> b]>> :
                    a, b \in {<<"N">>, <<"S1", "FE0F">>, <<"P1", "?">>}},
     projects : {<<[name |-> "p", emoji |-> deserialize_emoji(a)],
                   [name |-> "q", emoji |-> deserialize_emoji(b)]>> :
                    a, b \in {<<"P1">>, <<"S1">>}}]

\* on_room_reaction and on_reporting_room_reaction: the selectors are taken
\* out of the key, then a suffix " ?", and the result is classified
ClassifyReaction(cfg, key) ==
    Config_reaction_type_by_emoji(cfg.notice_emoji, cfg.sections, cfg.projects,
                                  StripSuggestion(StripVS(key)))

InitEmoji ==
    /\ config \in EmojiConfigs
    /\ news_map = EmptyMap
    /\ disk = EmptyMap
    /\ room = EmptyMap
    /\ nextId = 1
    /\ out = <<>>
    /\ last = NoEvent
    /\ lock = 0
    /\ tasks = [t \in Tasks |-> Idle]

\* a reaction with this key arrives and is classified; out holds the type
Classified(key) ==
    /\ last.event # "classify"
    /\ out' = <<ClassifyReaction(config, key)>>
    /\ last' = [NoEvent EXCEPT !.event = "classify", !.arg = {key}]
    /\ UNCHANGED <<config, news_map, disk, room, nextId, lock, tasks>>

NextEmoji == \E key \in EmojiKeys : Classified(key)

SpecEmoji == InitEmoji /\ [][NextEmoji]_vars

---------------------------------------------------------------------------
(* C28 *)

\* the key that was classified
ClassifiedKey == CHOOSE key \in last.arg : TRUE

\* the emoji of the claim: without selectors, and without a trailing " ?"
Normalized(key) == StripSuggestion(StripVS(key))

\* the places of the sections, or projects, whose emoji without selectors is
\* this one
EqualEmoji(list, emoji) == {i \in DOMAIN list : StripVS(list[i].emoji) = emoji}

\* C28: the type of a reaction is Notice when its normalized emoji is the
\* notice emoji; else the first configured section with that emoji; else the
\* first configured project with that emoji; else None. A key has the type
\* of the key without its selectors, so that keys that differ by selectors
\* only have the same type.
C28_ClassifiedInOrder ==
    last.event = "classify" =>
        LET emoji == Normalized(ClassifiedKey)
            ss == EqualEmoji(config.sections, emoji)
            ps == EqualEmoji(config.projects, emoji)
        IN  /\ IF emoji = StripVS(config.notice_emoji)
               THEN out[1].kind = "notice"
               ELSE IF ss # {}
               THEN /\ out[1].kind = "section"
                    /\ \E i \in ss : /\ out[1].name = config.sections[i].name
                                     /\ \A j \in ss : i <= j
               ELSE IF ps # {}
               THEN /\ out[1].kind = "project"
                    /\ \E i \in ps : /\ out[1].name = config.projects[i].name
                                     /\ \A j \in ps : i <= j
               ELSE out[1].kind = "none"
            /\ ClassifyReaction(config, StripVS(ClassifiedKey)) = out[1]

\* a key with the suggestion marker, whose emoji is that of both sections
\* but for the selector, was classified as the first section
C28_Witness ==
    /\ last.event = "classify"
    /\ ClassifiedKey = <<"S1", " ", "?">>
    /\ config.sections[1].emoji = <<"S1", "FE0F">>
    /\ config.sections[2].emoji = <<"S1", "FE0F">>
    /\ out[1] = [kind |-> "section", name |-> "s1"]


---------------------------------------------------------------------------
(* C29 *)

\* C29: in every state the handlers reach, every key of news_map holds a
\* News whose event_id is the key, so that no two News of the store are of
\* the same message and no edit, tag, untag or media changes the id a News
\* is stored under.
C29_KeyedByEventId ==
    /\ \A k \in DOMAIN news_map : news_map[k].event_id = k
    /\ \A j, k \in DOMAIN news_map :
          news_map[j].event_id = news_map[k].event_id => j = k

\* a store of two News, one of them tagged by the last reaction
C29_Witness ==
    /\ Cardinality(DOMAIN news_map) = 2
    /\ last.event = "reaction"
    /\ \E k \in DOMAIN news_map : last.id \in DOMAIN news_map[k].section_names


---------------------------------------------------------------------------
(* C30 *)

\* the sender of the next reaction is an editor, or is the sender of the
\* related message while notices are not restricted
NextByPrivileged ==
    \/ last'.sender \in config.editors
    \/ last'.sender = last'.author /\ ~config.restrict_notice

\* the next event is a notice reaction on an image or a video
NextNoticeOnMedia ==
    /\ last'.event = "reaction"
    /\ last'.kind = "notice"
    /\ last'.msgtype \in {"image", "video"}

\* the store after the media of the next reaction is attached to the News k
\* under the id of the reaction
WithMedia(k) ==
    LET media == room[last'.target]
        entry == <<last'.target, media.body, media.uri>>
    IN  [news_map EXCEPT ![k] =
            IF media.msgtype = "image"
            THEN [@ EXCEPT !.images = MapInsert(@, last'.id, entry)]
            ELSE [@ EXCEPT !.videos = MapInsert(@, last'.id, entry)]]

\* the next reaction attaches its media to a News that find_related_news
\* finds for the sender and the timestamp of the media and changes nothing
\* else; when it finds none, no News changes and the moderation room is told
AttachedToRelated ==
    LET found == find_related_news(news_map, last'.author, last'.target)
    IN  IF found = {}
        THEN /\ news_map' = news_map
             /\ \E i \in DOMAIN out' :
                   /\ out'[i].room = "admin"
                   /\ out'[i].kind \in {"image_no_match", "video_no_match"}
                   /\ out'[i].who = last'.sender
        ELSE \E k \in found : news_map' = WithMedia(k)

\* C30 (as claimed): a notice reaction of a privileged user on an image or a
\* video puts one entry (message id, filename, mxc uri) under the id of the
\* reaction into the News find_related_news finds and changes no other News;
\* when the sender of the media has no News, nothing changes and the
\* moderation room gets the failure message.
C30_Original ==
    [][ (NextNoticeOnMedia /\ NextByPrivileged) => AttachedToRelated ]_vars

\* C30 (amended): the same for an image or video whose source is a plain mxc
\* uri; a media message with an encrypted source is never attached: no News
\* changes and no message is sent.
C30_PlainMediaAttached ==
    [][ (NextNoticeOnMedia /\ NextByPrivileged)
        => IF room[last'.target].source = "plain"
           THEN AttachedToRelated
           ELSE \/ /\ news_map' = news_map
                   /\ out' = <<>>
                \/ /\ find_related_news(news_map, last'.author, last'.target) = {}
                   /\ AttachedToRelated ]_vars

\* an editor's notice reaction attached an image to a News of its sender
C30_Witness ==
    /\ ReactionBy({"notice"}, {"image"})
    /\ LastByEditor
    /\ \E k \in DOMAIN news_map :
          /\ news_map[k].reporter_id = last.author
          /\ last.id \in DOMAIN news_map[k].images
          /\ news_map[k].images[last.id][1] = last.target


---------------------------------------------------------------------------
(* C33 *)

\* C33: whatever the orders of the sections are, two sections of the same
\* order included, every assigned News of the rendered list is in the
\* document, and every section that has a News or a project group in
\* render_sections has a block of its own in the document.
C33_EveryAssignedNewsRendered ==
    HasRendered =>
        /\ \A i \in DOMAIN RenderedList :
              is_assigned(RenderedList[i])
                  => RenderedList[i].event_id \in DocumentIds(RenderResult)
        /\ \A key \in DOMAIN RenderedSections :
              \E b \in DOMAIN RenderResult.rendered :
                  RenderResult.rendered[b].section = key[2]


---------------------------------------------------------------------------
(* C34 *)

\* the News id is directly in the RenderSection of the section, outside the
\* project groups
Directly(groups, section, id) ==
    LET key == <<config.section_order[section], section>>
    IN  /\ key \in DOMAIN groups
        /\ id \in Range(groups[key].news)

\* the number of times the id is in the list
Times(list, id) == Cardinality({i \in DOMAIN list : list[i] = id})

\* the News id is in some project group of some section
InSomeGroup(groups, id) ==
    \E key \in DOMAIN groups : \E i \in DOMAIN groups[key].projects :
        id \in Range(groups[key].projects[i].news)

\* the items of the block of the section in the document that hold the id
ItemsWith(result, section, kind, id) ==
    UNION {{<<b, i>> : i \in {j \in DOMAIN result.rendered[b].items :
                                /\ result.rendered[b].items[j].kind = kind
                                /\ id \in Range(result.rendered[b].items[j].news)}} :
              b \in {a \in DOMAIN result.rendered : result.rendered[a].section = section}}

\* the sections of the configuration have different orders
DistinctOrders == config.section_order["s1"] # config.section_order["s2"]

\* C34: a News with section tags and no project tag is directly in the
\* RenderSection of each of its sections and in no project group; a News
\* with project tags and no section tag is once in the group of each of its
\* projects, in the project's default section, and nowhere else. When the
\* sections have different orders, the blocks of the document show the same.
C34_SectionOnlyAndProjectOnly ==
    HasRendered =>
      /\ DistinctOrders =>
            \A n \in DOMAIN RenderedList :
                LET news == RenderedList[n]
                    sections == Names(news.section_names)
                    projects == Names(news.project_names)
                IN  /\ (sections # {} /\ projects = {}) =>
                          /\ \A s \in sections :
                                ItemsWith(RenderResult, s, "news", news.event_id) # {}
                          /\ \A s \in {"s1", "s2"} :
                                ItemsWith(RenderResult, s, "project", news.event_id) = {}
                    /\ (projects # {} /\ sections = {}) =>
                          /\ \A name \in projects :
                                \E at \in ItemsWith(RenderResult,
                                            project_by_name(config, name).default_section,
                                            "project", news.event_id) :
                                    LET item == RenderResult.rendered[at[1]].items[at[2]]
                                    IN  /\ item.project = name
                                        /\ Times(item.news, news.event_id) = 1
                          /\ \A s \in {"s1", "s2"} :
                                ItemsWith(RenderResult, s, "news", news.event_id) = {}
      /\
        \A n \in DOMAIN RenderedList :
            LET news == RenderedList[n]
                sections == Names(news.section_names)
                projects == Names(news.project_names)
            IN  /\ (sections # {} /\ projects = {}) =>
                      /\ \A s \in sections : Directly(RenderedSections, s, news.event_id)
                      /\ ~InSomeGroup(RenderedSections, news.event_id)
                /\ (projects # {} /\ sections = {}) =>
                      /\ \A name \in projects :
                            LET project == project_by_name(config, name)
                                key == <<config.section_order[project.default_section],
                                         project.default_section>>
                            IN  /\ key \in DOMAIN RenderedSections
                                /\ \E i \in DOMAIN RenderedSections[key].projects :
                                      /\ RenderedSections[key].projects[i].project = name
                                      /\ RenderedSections[key].projects[i].overwritten_section = ""
                                      /\ Times(RenderedSections[key].projects[i].news,
                                               news.event_id) = 1
                      /\ \A s \in {"s1", "s2"} : ~Directly(RenderedSections, s, news.event_id)

\* a News with two sections and no project, and a News with the project and
\* no section, have been rendered
C34_Witness ==
    /\ HasRendered
    /\ DistinctOrders
    /\ DOMAIN news_map = {1, 2}
    /\ Names(news_map[1].section_names) = {"s1", "s2"}
    /\ Names(news_map[1].project_names) = {}
    /\ Names(news_map[2].project_names) = {"p"}
    /\ Names(news_map[2].section_names) = {}


---------------------------------------------------------------------------
(* C31 *)

\* the next event is an editor's reaction whose target cannot be used: the
\* related event is no message of the room, or the reaction is a section or
\* project emoji on a text message that is no News
NextTargetUnusable ==
    /\ last'.event = "reaction"
    /\ last'.sender \in config.editors
    /\ last'.kind # "none"
    /\ \/ ~IsMessage(last'.target)
       \/ /\ last'.kind \in {"section", "project"}
          /\ last'.msgtype \in {"text", "notice"}
          /\ ~last'.was_news

\* C31: a reaction whose target cannot be used changes no News and is
\* reported to the moderation room.
C31_UnusableTargetReported ==
    [][ NextTargetUnusable
        => /\ news_map' = news_map
           /\ \E i \in DOMAIN out' : out'[i].room = "admin" ]_vars


---------------------------------------------------------------------------
(* Submissions of one message by two handlers *)

\* Bot::on_room_reaction, the notice emoji of an editor on a text message:
\* on_reporting_room_reaction calls add_news
StartNotice(t, sender, target) ==
    /\ IsMessage(target)
    /\ room[target].msgtype = "text"
    /\ is_editor(config, sender)
    /\ Start(t, "notice", [NoEvent EXCEPT !.event = "reaction", !.id = nextId,
                                          !.sender = sender, !.target = target,
                                          !.arg = {NoticeEmoji}])
    /\ UNCHANGED room

\* al's message 1 mentions the bot and its handler has just been called
InitRace ==
    /\ config \in Configs
    /\ ~config.restrict_notice
    /\ news_map = EmptyMap
    /\ disk = EmptyMap
    /\ room = MapInsert(EmptyMap, 1,
                 [sender |-> "al", msgtype |-> "text", body |-> BodyMentionLong,
                  source |-> "none", uri |-> ""])
    /\ nextId = 2
    /\ out = <<>>
    /\ last = NoEvent
    /\ lock = 0
    /\ tasks = [t \in Tasks |->
                  IF t = 1
                  THEN [Idle EXCEPT !.handler = "message", !.pc = 1,
                                    !.ev = [NoEvent EXCEPT !.event = "message", !.id = 1,
                                                           !.sender = "al",
                                                           !.arg = {BodyMentionLong}]]
                  ELSE Idle]

\* the editor reacts to the message with the notice emoji or a section emoji
\* while the handlers run
NextRace ==
    \/ \E t \in Tasks, target \in DOMAIN room : StartNotice(t, Editor, target)
    \/ \E t \in Tasks, target \in DOMAIN room : StartReaction(t, Editor, <<"S1">>, target)
    \/ \E t \in Tasks : Skip(t)
    \/ \E t \in Tasks : Lock(t)
    \/ \E t \in Tasks : Unlock(t)
    \/ \E t \in Tasks : Fetch(t)
    \/ \E t \in Tasks : Check(t)
    \/ \E t \in Tasks : Mutate(t)
    \/ \E t \in Tasks : Write(t)
    \/ \E t \in Tasks : Send(t)

SpecRace == InitRace /\ [][NextRace]_vars

---------------------------------------------------------------------------
(* C32 *)

\* C32: while submissions of a message and tag reactions on it are handled
\* together, a News that is in the store stays the News it is (it is not
\* replaced by a News made later) and keeps every tag and media entry.
C32_StoredNewsNotReplaced ==
    [][ \A k \in DOMAIN news_map :
            /\ k \in DOMAIN news_map'
            /\ news_map'[k].timestamp = news_map[k].timestamp
            /\ DOMAIN news_map[k].section_names \subseteq DOMAIN news_map'[k].section_names
            /\ DOMAIN news_map[k].project_names \subseteq DOMAIN news_map'[k].project_names
            /\ DOMAIN news_map[k].images \subseteq DOMAIN news_map'[k].images
            /\ DOMAIN news_map[k].videos \subseteq DOMAIN news_map'[k].videos ]_vars


---------------------------------------------------------------------------
(* Mentions of the bot *)

\* the length of the messages
MaxMsgLen == 4

MentionChars == {"@", "h", "H", ":", "srv", "SRV", "d", "D", " ", "x", "["}

MentionMessages == UNION {[1..n -> MentionChars] : n \in 0..MaxMsgLen}

InitMention ==
    /\ config \in Configs
    /\ news_map = EmptyMap
    /\ disk = EmptyMap
    /\ room = EmptyMap
    /\ nextId = 1
    /\ out = <<>>
    /\ last = NoEvent
    /\ lock = 0
    /\ tasks = [t \in Tasks |-> Idle]

\* both functions are called with this message; out holds what they return
Mentioned(display_name, msg) ==
    /\ last.event # "mention"
    /\ out' = <<[display_name |-> display_name,
                 starts |-> utils_msg_starts_with_mention(display_name, msg),
                 removed |-> utils_remove_bot_name(display_name, msg)]>>
    /\ last' = [NoEvent EXCEPT !.event = "mention", !.arg = {msg}]
    /\ UNCHANGED <<config, news_map, disk, room, nextId, lock, tasks>>

NextMention ==
    /\ last.event = "init"
    /\ \E display_name \in BOOLEAN, msg \in MentionMessages : Mentioned(display_name, msg)

SpecMention == InitMention /\ [][NextMention]_vars

---------------------------------------------------------------------------
(* C35 *)

\* the message the functions were called with
MentionedMsg == CHOOSE msg \in last.arg : TRUE

\* the forms of a mention of the user id: @?h(:srv)?:? in either case
UserIdPrefixes ==
    {at \o name \o server \o colon :
        at \in {<<>>, <<"@">>}, name \in {<<"h">>, <<"H">>},
        server \in {<<>>, <<":", "srv">>, <<":", "SRV">>},
        colon \in {<<>>, <<":">>}}

\* the forms of a mention of the display name, when there is one
DisplayNamePrefixes(display_name) ==
    IF display_name
    THEN {name \o colon : name \in {<<"d">>, <<"D">>}, colon \in {<<>>, <<":">>}}
    ELSE {}

IsPrefix(p, s) == Len(p) <= Len(s) /\ SubSeq(s, 1, Len(p)) = p

\* s without the longest of these forms it starts with
WithoutMention(forms, s) ==
    LET found == {p \in forms : IsPrefix(p, s)}
    IN  IF found = {} THEN s
        ELSE LET p == CHOOSE x \in found : \A y \in found : Len(y) <= Len(x)
             IN  SubSeq(s, Len(p) + 1, Len(s))

\* C35 as the specification states it: a message mentions the bot exactly
\* when it starts with a form of the user id or of the display name; without
\* a mention remove_bot_name returns the message unchanged, with one it
\* returns what follows the mention, trimmed.
C35_Original ==
    last.event = "mention"
    => LET s == MentionedMsg
           forms == UserIdPrefixes \cup DisplayNamePrefixes(out[1].display_name)
       IN  /\ out[1].starts <=> \E p \in forms : IsPrefix(p, s)
           /\ ~out[1].starts => out[1].removed = s
           /\ out[1].starts => out[1].removed = Trim(WithoutMention(forms, s))

\* C35: a message mentions the bot exactly when it starts with a form of the
\* user id (either case, optional '@', optional ':server', optional ':') or,
\* when the bot has a display name, of the display name (either case,
\* optional ':'). remove_bot_name returns the message without the user id
\* mention it starts with, then without the display name mention the rest
\* starts with, and trimmed: a message without a mention is returned
\* trimmed, and is unchanged when it has no white space around it.
C35_MentionAtStart ==
    last.event = "mention"
    => LET s == MentionedMsg
           names == DisplayNamePrefixes(out[1].display_name)
       IN  /\ out[1].starts <=> \E p \in UserIdPrefixes \cup names : IsPrefix(p, s)
           /\ out[1].removed = Trim(WithoutMention(names, WithoutMention(UserIdPrefixes, s)))
           /\ ~out[1].starts => out[1].removed = Trim(s)
           /\ ~out[1].starts /\ Trim(s) = s => out[1].removed = s

\* the message "H: x" with no display name given: a mention, "x" remains
C35_Witness ==
    /\ last.event = "mention"
    /\ MentionedMsg = <<"H", ":", " ", "x">>
    /\ ~out[1].display_name
    /\ out[1].starts
    /\ out[1].removed = <<"x">>


---------------------------------------------------------------------------
(* The content of a message event (utils::MessageEventExt) *)

\* An event is a record of content (msgtype and body), relates_to (the
\* Replacement relation of content, with event_id and new_content, as a set
\* of at most one) and replace (unsigned.relations.replace: the latest edit
\* the server aggregated, an event with a Replacement relation, as a set of
\* at most one). An Option is a set of at most one value.
The(option) == CHOOSE x \in option : TRUE

MessageEventExt_content_own_first(ev) ==
    IF ev.relates_to # {} THEN The(ev.relates_to).new_content
    ELSE IF ev.replace # {} THEN The(ev.replace).new_content
    ELSE ev.content

\* the content msgtype() looks at
MessageEventExt_content(ev) ==
    IF ev.replace # {} THEN The(ev.replace).new_content
    ELSE IF ev.relates_to # {} THEN The(ev.relates_to).new_content
    ELSE ev.content

MessageEventExt_msgtype(ev) == MessageEventExt_content(ev).msgtype

MessageEventExt_edited_event_id(ev) ==
    IF ev.relates_to # {} THEN {The(ev.relates_to).event_id} ELSE {}

MessageEventExt_text(ev, allow_notice) ==
    IF MessageEventExt_msgtype(ev) = "text" THEN {MessageEventExt_content(ev).body}
    ELSE IF MessageEventExt_msgtype(ev) = "notice" /\ allow_notice
         THEN {MessageEventExt_content(ev).body}
    ELSE {}

MessageEventExt_image(ev) ==
    IF MessageEventExt_msgtype(ev) = "image" THEN {MessageEventExt_content(ev)} ELSE {}

MessageEventExt_video(ev) ==
    IF MessageEventExt_msgtype(ev) = "video" THEN {MessageEventExt_content(ev)} ELSE {}

\* message contents: the body tells the original ("a"), the content of the
\* event's own replacement ("b") and that of the aggregated edit ("c") apart
MsgTypes == {"text", "notice", "image", "video", "file"}

MessageContents(body) == [msgtype : MsgTypes, body : {body}]

Option(values) == {{}} \cup {{v} : v \in values}

MessageEvents ==
    [content : MessageContents("a"),
     relates_to : Option([event_id : {1}, new_content : MessageContents("b")]),
     replace : Option([new_content : MessageContents("c")])]

InitContent ==
    /\ config \in Configs
    /\ news_map = EmptyMap
    /\ disk = EmptyMap
    /\ room = EmptyMap
    /\ nextId = 2
    /\ out = <<>>
    /\ last = NoEvent
    /\ lock = 0
    /\ tasks = [t \in Tasks |-> Idle]

\* the event is read with every function of the trait; out holds the results
ContentRead(ev, allow_notice) ==
    /\ last.event = "init"
    /\ out' = <<[allow_notice |-> allow_notice,
                 msgtype |-> MessageEventExt_msgtype(ev),
                 edited_event_id |-> MessageEventExt_edited_event_id(ev),
                 text |-> MessageEventExt_text(ev, allow_notice),
                 image |-> MessageEventExt_image(ev),
                 video |-> MessageEventExt_video(ev)]>>
    /\ last' = [NoEvent EXCEPT !.event = "read", !.arg = {ev}]
    /\ UNCHANGED <<config, news_map, disk, room, nextId, lock, tasks>>

NextContent ==
    \E ev \in MessageEvents, allow_notice \in BOOLEAN : ContentRead(ev, allow_notice)

SpecContent == InitContent /\ [][NextContent]_vars

---------------------------------------------------------------------------
(* C36 *)

\* the event that was read
ReadEvent == The(last.arg)

\* what is read of a content: its kind, its text, its media
ReadOf(content, allow_notice) ==
    [msgtype |-> content.msgtype,
     text |-> IF content.msgtype = "text" \/ (content.msgtype = "notice" /\ allow_notice)
              THEN {content.body} ELSE {},
     image |-> IF content.msgtype = "image" THEN {content} ELSE {},
     video |-> IF content.msgtype = "video" THEN {content} ELSE {}]

WasRead == [msgtype |-> out[1].msgtype, text |-> out[1].text,
            image |-> out[1].image, video |-> out[1].video]

\* C36: what is read of a message event is read of the latest aggregated
\* edit when there is one, else of the replacement content when the event is
\* an edit itself, else of the original content. The event counts as an edit,
\* of the event its relation names, exactly when it is a replacement itself.
\* A notice has a text only when notices are allowed.
C36_ReadsLatestContent ==
    last.event = "read"
    => LET ev == ReadEvent
           allow == out[1].allow_notice
       IN  /\ ev.replace # {}
                => WasRead = ReadOf(The(ev.replace).new_content, allow)
           /\ ev.replace = {} /\ ev.relates_to # {}
                => WasRead = ReadOf(The(ev.relates_to).new_content, allow)
           /\ ev.replace = {} /\ ev.relates_to = {}
                => WasRead = ReadOf(ev.content, allow)
           /\ ev.relates_to = {} => out[1].edited_event_id = {}
           /\ ev.relates_to # {} => out[1].edited_event_id = {The(ev.relates_to).event_id}
           /\ out[1].msgtype = "notice" => (out[1].text # {} <=> allow)

\* an edit (of event 1, to a text) that carries an aggregated edit to a
\* notice is read as the notice, with notices allowed, and as an edit of 1
C36_Witness ==
    /\ last.event = "read"
    /\ ReadEvent.replace # {} /\ ReadEvent.relates_to # {}
    /\ The(ReadEvent.relates_to).new_content.msgtype = "text"
    /\ out[1].msgtype = "notice"
    /\ out[1].text = {"c"}
    /\ out[1].edited_event_id = {1}


---------------------------------------------------------------------------
(* The bot's own reactions *)

\* the configurations, with the bot's user id among the editors or not
OwnConfigs ==
    [restrict_notice : BOOLEAN, editors : {{Editor}, {Editor, BotUserId}},
     section_order : {SectionOrder}]

\* as Init, for these configurations
InitOwn ==
    /\ config \in OwnConfigs
    /\ news_map \in {EmptyMap, MapInsert(EmptyMap, 1, FirstNews)}
    /\ disk = news_map
    /\ room = MapInsert(EmptyMap, 1, FirstMessage)
    /\ nextId = 2
    /\ out = <<>>
    /\ last = NoEvent
    /\ lock = 0
    /\ tasks = [t \in Tasks |-> Idle]

\* al posts messages; the bot and the editor react. The bot's reactions are
\* the suggestions add_news sends, which the sync hands back to the bot, and
\* any other reaction made with its account.
NextOwn ==
    \/ \E content \in Contents : MessageCreated("al", content, FALSE)
    \/ \E sender \in {BotUserId, Editor}, key \in ReactionKeys, target \in Targets :
          ReactionAdded(sender, key, target)

SpecOwn == InitOwn /\ [][NextOwn]_vars

---------------------------------------------------------------------------
(* C37 *)

\* the ids of the reactions that hold a tag or a media entry of a News
EntryIds(nm) ==
    UNION {(DOMAIN nm[k].section_names) \cup (DOMAIN nm[k].project_names)
           \cup (DOMAIN nm[k].images) \cup (DOMAIN nm[k].videos) : k \in DOMAIN nm}

\* C37: a reaction sent by the bot's own user id changes nothing in the
\* store, writes nothing and causes no message, whether or not the bot's id
\* is among the editors. A tag or a media entry comes into the store only by
\* the reaction of another user (a submission, whose suggestions the bot
\* sends as reactions, makes none), and so does a News that a reaction makes.
C37_OwnReactionsIgnored ==
    [][ /\ last'.event = "reaction" /\ last'.sender = BotUserId
            => /\ news_map' = news_map
               /\ disk' = disk
               /\ out' = <<>>
        /\ EntryIds(news_map') \ EntryIds(news_map) # {}
            => last'.event = "reaction" /\ last'.sender # BotUserId
        /\ last'.event = "reaction" /\ DOMAIN news_map' # DOMAIN news_map
            => last'.sender # BotUserId ]_vars

\* the bot, listed as an editor, has reacted with a section emoji or a
\* project suggestion to a message that is a News
C37_Witness ==
    /\ last.event = "reaction"
    /\ last.sender = BotUserId
    /\ BotUserId \in config.editors
    /\ last.kind \in {"section", "project"}
    /\ last.was_news
    /\ last.target \in DOMAIN news_map


---------------------------------------------------------------------------
(* C38 *)

\* C38: every News of the store has a message, as stored without the
\* mention, that is longer than the minimum length.
C38_StoredMessagesLongEnough ==
    \A k \in DOMAIN news_map : ByteLen(news_map[k].message) > MinLength


---------------------------------------------------------------------------
(* C40 *)

\* the News that were made by a notice reaction: the time of a News is the
\* event that made it, which is the message itself when it was submitted by
\* a mention
MadeByReaction(nm, reaction_event_id) ==
    {k \in DOMAIN nm : nm[k].timestamp = reaction_event_id /\ k # reaction_event_id}

\* C40: a News that a notice reaction makes has the id of the message that
\* was reacted to, not of the reaction, and the author of that message as
\* reporter, whoever reacted; the redaction of that reaction leaves the News
\* in the store as it is.
C40_NoticeNewsIsOfTheAuthor ==
    [][ /\ last'.event = "reaction"
            => \A k \in (DOMAIN news_map') \ (DOMAIN news_map) :
                  /\ k = last'.target
                  /\ k # last'.id
                  /\ news_map'[k].event_id = last'.target
                  /\ news_map'[k].reporter_id = room[last'.target].sender
        /\ last'.event = "redaction"
            => \A k \in MadeByReaction(news_map, last'.target) :
                  /\ k \in DOMAIN news_map'
                  /\ news_map'[k] = news_map[k] ]_vars

\* the editor's notice reaction made a News of al's message, and the
\* reaction has been redacted
C40_Witness ==
    /\ last.event = "redaction"
    /\ \E k \in MadeByReaction(news_map, last.target) :
          /\ news_map[k].reporter_id = "al"
          /\ news_map[k].event_id = k


---------------------------------------------------------------------------
(* The handlers under a fair scheduler *)

\* the next step of the handler of task t: the runtime polls a handler that
\* can go on, a network wait ends (with the answer or with a failure), and
\* Mutex::lock returns once the lock is free
Step(t) ==
    \/ Skip(t) \/ Lock(t) \/ Unlock(t) \/ Fetch(t) \/ Mutate(t)
    \/ Write(t) \/ Upload(t)
    \/ Send(t) \/ ReactionFails(t) \/ SendFails(t)

\* every handler goes on when it can. For the lookup of add_news and for the
\* render, which are enabled exactly while the handler is at that step and
\* which leave it, weak fairness (WF_vars(Check(t)), WF_vars(Render(t))) is
\* written as: the handler is not at that step for ever.
SpecStepsFair ==
    /\ SpecSteps
    /\ \A t \in Tasks : WF_vars(Step(t))
    /\ \A t \in Tasks : []<>(~AtStep(t, "check"))
    /\ \A t \in Tasks : []<>(~AtStep(t, "render"))

---------------------------------------------------------------------------
(* C39 *)

\* the steps a handler takes while its guard is alive
GuardedKinds == {"check", "mutate", "write", "render", "unlock"}

\* C39: a handler that is about to take the store lock does not hold it; a
\* handler that holds it is at a step between lock() and the drop of the
\* guard, so it has not returned and does not wait on the network; and a
\* handler that waits for the lock gets it, as long as no panic has ended the
\* process.
C39_LockTakenOnceAndReleased ==
    /\ [](\A t \in Tasks :
            /\ AtStep(t, "lock") => lock # t
            /\ lock = t => tasks[t].pc >= 1 /\ StepKind(t) \in GuardedKinds)
    /\ \A t \in Tasks : (AtStep(t, "lock") ~> (lock = t \/ ~Running))

\* a handler waits for the lock while the other handler holds it
C39_Witness ==
    \E t \in Tasks, u \in Tasks :
        /\ u # t
        /\ AtStep(t, "lock")
        /\ lock = u
        /\ StepKind(u) \in {"mutate", "write"}

====
